---- MODULE Spec2Model ----
(***************************************************************************)
(* Model of the quotation engine, src/utils/calculateQuote.ts.             *)
(*                                                                         *)
(* calculateQuote is a pure function of a request (which carries the       *)
(* reference snapshot `data`).  One call is modelled as four steps that    *)
(* follow the order of the code: Validate (lines 231-260),                 *)
(* ResolveQuantity (262-306), AggregateCost (308-378) and SynthesizePrice  *)
(* (380-417).  A throw ends the call in pc = "error" with no result.       *)
(*                                                                         *)
(* JavaScript numbers are modelled as exact rationals plus NaN, +Infinity, *)
(* undefined and null; the rounding of IEEE doubles is not modelled.       *)
(***************************************************************************)
EXTENDS Integers, Sequences, FiniteSets, TLC

\* input .. result are one call of calculateQuote; other is a second call, with its
\* own request, position, warnings list, locals and result (idle when there is none).
VARIABLES input, pc, warnings, error, loc, result, other

vars == <<input, pc, warnings, error, loc, result, other>>

(***************************************************************************)
(* Numbers.  A value is a record [k, n, d]: k = "num" is the rational n/d  *)
(* in lowest terms with d > 0; the other kinds carry n = 0, d = 1.         *)
(***************************************************************************)
NaN == [k |-> "nan", n |-> 0, d |-> 1]

Inf == [k |-> "inf", n |-> 0, d |-> 1]

Undef == [k |-> "undef", n |-> 0, d |-> 1]

Null == [k |-> "null", n |-> 0, d |-> 1]

Abs(x) == IF x < 0 THEN -x ELSE x

RECURSIVE GCD(_, _)
GCD(a, b) == IF b = 0 THEN a ELSE GCD(b, a % b)

Rat(n, d) ==
  LET s == IF d < 0 THEN -1 ELSE 1
      g == GCD(Abs(n), Abs(d))
  IN  [k |-> "num", n |-> (s * n) \div g, d |-> (s * d) \div g]

Int2Num(i) == Rat(i, 1)

Zero == Int2Num(0)

One == Int2Num(1)

IsNum(a) == a.k = "num"

\* undefined and null are not NaN, but arithmetic turns undefined into NaN.
Add(a, b) ==
  IF IsNum(a) /\ IsNum(b) THEN Rat(a.n * b.d + b.n * a.d, a.d * b.d)
  ELSE IF a.k = "inf" /\ b.k \in {"inf", "num"} THEN Inf
  ELSE IF b.k = "inf" /\ a.k = "num" THEN Inf
  ELSE NaN

Neg(a) == IF IsNum(a) THEN Rat(-a.n, a.d) ELSE NaN

Sub(a, b) == IF IsNum(b) THEN Add(a, Neg(b)) ELSE NaN

\* Infinity only ever meets a positive finite factor in calculateQuote
\* (a hint of Infinity times unit weight or bags per ton).
Mul(a, b) ==
  IF IsNum(a) /\ IsNum(b) THEN Rat(a.n * b.n, a.d * b.d)
  ELSE IF a.k = "inf" /\ IsNum(b) /\ b.n > 0 THEN Inf
  ELSE IF b.k = "inf" /\ IsNum(a) /\ a.n > 0 THEN Inf
  ELSE IF a.k = "inf" /\ b.k = "inf" THEN Inf
  ELSE NaN

\* x / 0 is +Infinity for x > 0 and NaN for x = 0; x / Infinity is 0.
Div(a, b) ==
  IF IsNum(a) /\ IsNum(b)
  THEN IF b.n # 0 THEN Rat(a.n * b.d, a.d * b.n)
       ELSE IF a.n > 0 THEN Inf ELSE NaN
  ELSE IF IsNum(a) /\ b.k = "inf" THEN Zero
  ELSE IF a.k = "inf" /\ IsNum(b) /\ b.n > 0 THEN Inf
  ELSE NaN

\* a < b, a <= b, a > b, a >= b as JavaScript evaluates them on numbers:
\* every comparison with NaN (or undefined) is false.
Lt(a, b) ==
  IF IsNum(a) /\ IsNum(b) THEN a.n * b.d < b.n * a.d
  ELSE IsNum(a) /\ b.k = "inf"

Le(a, b) ==
  IF IsNum(a) /\ IsNum(b) THEN a.n * b.d <= b.n * a.d
  ELSE a.k \in {"num", "inf"} /\ b.k = "inf"

Gt(a, b) == Lt(b, a)

Ge(a, b) == Le(b, a)

\* Number.isFinite
IsFinite(a) == IsNum(a)

\* Math.ceil
Ceil(a) == IF IsNum(a) THEN Int2Num(-((-a.n) \div a.d)) ELSE IF a.k = "inf" THEN Inf ELSE NaN

\* Math.round: the nearest integer, halves rounded up.
Round(a) == IF IsNum(a) THEN Int2Num((2 * a.n + a.d) \div (2 * a.d)) ELSE IF a.k = "inf" THEN Inf ELSE NaN

\* Math.max of two numbers: NaN if either is NaN.
Max(a, b) ==
  IF a.k \in {"nan", "undef"} \/ b.k \in {"nan", "undef"} THEN NaN
  ELSE IF Lt(a, b) THEN b ELSE a

\* Number.prototype.toFixed(2), as the number it prints.
ToFixed2(a) == IF IsNum(a) THEN Rat((200 * a.n + a.d) \div (2 * a.d), 100) ELSE a

\* a ?? b : b when a is null or undefined.
Coalesce(a, b) == IF a.k \in {"undef", "null"} THEN b ELSE a

\* !value for a number | undefined: true for undefined, null, 0 and NaN.
Falsy(a) == a.k \in {"undef", "null", "nan"} \/ (IsNum(a) /\ a.n = 0)

(***************************************************************************)
(* Helpers of calculateQuote.ts.  Array.prototype.find returns the first   *)
(* matching element or undefined: First(s, matching) returns <<row>> for   *)
(* the least index in `matching`, or <<>>.                                 *)
(***************************************************************************)
First(s, matching) ==
  IF matching = {}
  THEN <<>>
  ELSE <<s[CHOOSE i \in matching : \A j \in matching : i <= j]>>

Found(r) == r # <<>>

\* FALLBACK_FCL_PORT['20GP']
FallbackFclPort20GP == 3500

\* FALLBACK_FCL_PORT['40HQ']
FallbackFclPort40HQ == 4200

\* FALLBACK_FCL_PORT with the two container types exchanged.
FALLBACK_FCL_PORT_Exchanged(containerType) ==
  IF containerType = "20GP" THEN Int2Num(FallbackFclPort40HQ) ELSE Int2Num(FallbackFclPort20GP)

\* FALLBACK_FCL_PORT
FALLBACK_FCL_PORT(containerType) ==
  IF containerType = "20GP" THEN Int2Num(FallbackFclPort20GP) ELSE Int2Num(FallbackFclPort40HQ)

\* The value resolveContainerMaxTons substitutes for a missing or invalid rule.
FallbackMaxTons == 20

\* ensurePositive returns normally (TRUE) or throws (FALSE).
EnsurePositive(value) == IsFinite(value) /\ Gt(value, Zero)

\* toNonNegative
ToNonNegative(value, fallback) == IF IsFinite(value) /\ Ge(value, Zero) THEN value ELSE fallback

FindProduct(data, productId) ==
  LET rows == data.products
  IN  First(rows, {i \in DOMAIN rows : rows[i].id = productId})

FindPackagingOption(data, packagingOptionId) ==
  LET rows == data.packaging_options
  IN  First(rows, {i \in DOMAIN rows : rows[i].id = packagingOptionId})

FindFactory(data, factoryId) ==
  LET rows == data.factories
  IN  First(rows, {i \in DOMAIN rows : rows[i].id = factoryId})

\* The row findCostPerTon reads (it throws when there is none or its cost is not positive).
FindCostRow(data, productId, factoryId) ==
  LET rows == data.factory_product_costs
  IN  First(rows, {i \in DOMAIN rows : rows[i].product_id = productId /\ rows[i].factory_id = factoryId})

\* The messages pushed to warnings, by their text.  The message of a missing
\* inland-freight rule uses the same sentence as that of a missing FCL port rule
\* ("... port-charge rule, computed with default <val> RMB"): they differ in val.
WarnNoLoadRule(containerType) ==
  [text |-> "no container-load rule, 20 tons used", ct |-> containerType, mode |-> "", val |-> Int2Num(FallbackMaxTons), val2 |-> Zero]

WarnBadLoadRule(containerType) ==
  [text |-> "max_tons invalid, 20 tons used", ct |-> containerType, mode |-> "", val |-> Int2Num(FallbackMaxTons), val2 |-> Zero]

WarnDowngrade(maxTons) ==
  [text |-> "hint below max_tons, switched to LCL", ct |-> "", mode |-> "", val |-> ToFixed2(maxTons), val2 |-> Zero]

WarnNoPortRule(containerType, mode, val) ==
  [text |-> "no port-charge rule, default used", ct |-> containerType, mode |-> mode, val |-> val, val2 |-> Zero]

WarnNoLclPortRule ==
  [text |-> "no LCL port-charge rule", ct |-> "", mode |-> "", val |-> Zero, val2 |-> Zero]

WarnLclDearer(lcl, fcl) ==
  [text |-> "LCL port charge above FCL, choose FCL", ct |-> "", mode |-> "", val |-> ToFixed2(lcl), val2 |-> ToFixed2(fcl)]

\* resolveContainerMaxTons reading a row with an empty or null product_id as a wildcard.
ResolveContainerMaxTons_Wildcard(data, productId, containerType) ==
  LET rows == data.container_load_rules
      exact == First(rows, {i \in DOMAIN rows : rows[i].product_id = productId
                                                  /\ rows[i].container_type = containerType})
      wild == First(rows, {i \in DOMAIN rows : rows[i].product_id \in {"", "null"}
                                                 /\ rows[i].container_type = containerType})
      rule == IF Found(exact) THEN exact ELSE wild
  IN  IF ~Found(rule)
      THEN [value |-> Int2Num(FallbackMaxTons), pushed |-> <<WarnNoLoadRule(containerType)>>]
      ELSE IF ~IsFinite(rule[1].max_tons) \/ Le(rule[1].max_tons, Zero)
      THEN [value |-> Int2Num(FallbackMaxTons), pushed |-> <<WarnBadLoadRule(containerType)>>]
      ELSE [value |-> rule[1].max_tons, pushed |-> <<>>]

\* resolveContainerMaxTons: [value, pushed] where pushed is what it appends to warnings.
ResolveContainerMaxTons(data, productId, containerType) ==
  LET rows == data.container_load_rules
      rule == First(rows, {i \in DOMAIN rows : rows[i].product_id = productId
                                                 /\ rows[i].container_type = containerType})
  IN  IF ~Found(rule)
      THEN [value |-> Int2Num(FallbackMaxTons), pushed |-> <<WarnNoLoadRule(containerType)>>]
      ELSE IF ~IsFinite(rule[1].max_tons) \/ Le(rule[1].max_tons, Zero)
      THEN [value |-> Int2Num(FallbackMaxTons), pushed |-> <<WarnBadLoadRule(containerType)>>]
      ELSE [value |-> rule[1].max_tons, pushed |-> <<>>]

\* findPortRule as one pass: the first row that matches exactly or as a wildcard.
FindPortRule_FirstMatch(rules, mode, containerType, portId) ==
  First(rules, {i \in DOMAIN rules : rules[i].mode = mode
                                      /\ rules[i].container_type = containerType
                                      /\ rules[i].port_id \in {portId, "null", ""}})

\* findPortRule with a null container type matching the rows of every container type.
FindPortRule_AnyContainer(rules, mode, containerType, portId) ==
  LET exact == First(rules, {i \in DOMAIN rules : rules[i].mode = mode
                                                    /\ containerType \in {"null", rules[i].container_type}
                                                    /\ rules[i].port_id = portId})
      wild == First(rules, {i \in DOMAIN rules : rules[i].mode = mode
                                                   /\ containerType \in {"null", rules[i].container_type}
                                                   /\ rules[i].port_id \in {"null", ""}})
  IN  IF Found(exact) THEN exact ELSE wild

\* findPortRule: the exact row first, else the wildcard row (port_id null or '').
FindPortRule(rules, mode, containerType, portId) ==
  LET exact == First(rules, {i \in DOMAIN rules : rules[i].mode = mode
                                                    /\ rules[i].container_type = containerType
                                                    /\ rules[i].port_id = portId})
      wild == First(rules, {i \in DOMAIN rules : rules[i].mode = mode
                                                   /\ rules[i].container_type = containerType
                                                   /\ rules[i].port_id \in {"null", ""}})
  IN  IF Found(exact) THEN exact ELSE wild

\* resolveFclPortTotalRmb falling back to the constant without a warning.
ResolveFclPortTotalRmb_Silent(data, portId, containerType) ==
  LET rule == FindPortRule(data.port_charges_rules, "FCL", containerType, portId)
  IN  IF ~Found(rule)
      THEN [value |-> FALLBACK_FCL_PORT(containerType), pushed |-> <<>>]
      ELSE [value |-> rule[1].base_rmb, pushed |-> <<>>]

\* resolveFclPortTotalRmb
ResolveFclPortTotalRmb(data, portId, containerType) ==
  LET rule == FindPortRule(data.port_charges_rules, "FCL", containerType, portId)
  IN  IF ~Found(rule)
      THEN [value |-> FALLBACK_FCL_PORT(containerType),
            pushed |-> <<WarnNoPortRule(containerType, "FCL", FALLBACK_FCL_PORT(containerType))>>]
      ELSE [value |-> rule[1].base_rmb, pushed |-> <<>>]

\* resolveLclPortTotalRmb falling back to 0 without a warning.
ResolveLclPortTotalRmb_Silent(data, portId, tons) ==
  LET rule == FindPortRule(data.port_charges_rules, "LCL", "null", portId)
  IN  IF ~Found(rule)
      THEN [value |-> Zero, pushed |-> <<>>]
      ELSE [value |-> Add(ToNonNegative(rule[1].base_rmb, Zero),
                          Mul(Ceil(Max(Zero, Sub(tons, One))), ToNonNegative(rule[1].extra_rmb_per_ton, Zero))),
            pushed |-> <<>>]

\* resolveLclPortTotalRmb charging the surcharge on every started ton, the first included.
ResolveLclPortTotalRmb_EveryTon(data, portId, tons) ==
  LET rule == FindPortRule(data.port_charges_rules, "LCL", "null", portId)
  IN  IF ~Found(rule)
      THEN [value |-> Zero, pushed |-> <<WarnNoLclPortRule>>]
      ELSE [value |-> Add(ToNonNegative(rule[1].base_rmb, Zero),
                          Mul(Ceil(Max(Zero, tons)), ToNonNegative(rule[1].extra_rmb_per_ton, Zero))),
            pushed |-> <<>>]

\* resolveLclPortTotalRmb: LCL rules are looked up with container type null.
ResolveLclPortTotalRmb(data, portId, tons) ==
  LET rule == FindPortRule(data.port_charges_rules, "LCL", "null", portId)
  IN  IF ~Found(rule)
      THEN [value |-> Zero, pushed |-> <<WarnNoLclPortRule>>]
      ELSE LET base == ToNonNegative(rule[1].base_rmb, Zero)
               extraPerTon == ToNonNegative(rule[1].extra_rmb_per_ton, Zero)
               extraTons == Max(Zero, Sub(tons, One))
               extraFee == Mul(Ceil(extraTons), extraPerTon)
           IN  [value |-> Add(base, extraFee), pushed |-> <<>>]

\* The rule row resolveLandFreightPerTon reads when no valid override is given.
FindLandRule(rules, mode, factoryId, containerType) ==
  LET exact == First(rules, {i \in DOMAIN rules : rules[i].mode = mode
                                                    /\ rules[i].container_type = containerType
                                                    /\ rules[i].factory_id = factoryId})
      wild == First(rules, {i \in DOMAIN rules : rules[i].mode = mode
                                                   /\ rules[i].container_type = containerType
                                                   /\ rules[i].factory_id \in {"null", ""}})
  IN  IF Found(exact) THEN exact ELSE wild

\* resolveLandFreightPerTon reading the rule table before the override.
ResolveLandFreightPerTon_RuleFirst(rules, mode, factoryId, containerType, overrideValue) ==
  LET rule == FindLandRule(rules, mode, factoryId, containerType)
  IN  IF Found(rule) THEN [value |-> rule[1].default_rmb_per_ton, pushed |-> <<>>]
      ELSE IF overrideValue # Undef /\ IsFinite(overrideValue) /\ Ge(overrideValue, Zero)
      THEN [value |-> overrideValue, pushed |-> <<>>]
      ELSE [value |-> Zero, pushed |-> <<WarnNoPortRule(containerType, mode, Zero)>>]

\* resolveLandFreightPerTon
ResolveLandFreightPerTon(rules, mode, factoryId, containerType, overrideValue) ==
  IF overrideValue # Undef /\ IsFinite(overrideValue) /\ Ge(overrideValue, Zero)
  THEN [value |-> overrideValue, pushed |-> <<>>]
  ELSE LET rule == FindLandRule(rules, mode, factoryId, containerType)
       IN  IF ~Found(rule)
           THEN [value |-> Zero, pushed |-> <<WarnNoPortRule(containerType, mode, Zero)>>]
           ELSE [value |-> rule[1].default_rmb_per_ton, pushed |-> <<>>]

\* resolvePackagingOverrides: a missing row or a missing field reads as null.
ResolvePackagingOverrides(data, factoryId, packagingOptionId) ==
  LET rows == data.factory_packaging_overrides
      override == First(rows, {i \in DOMAIN rows : rows[i].factory_id = factoryId
                                                     /\ rows[i].packaging_option_id = packagingOptionId})
  IN  IF Found(override)
      THEN [carton_price_rmb_override |-> Coalesce(override[1].carton_price_rmb_override, Null),
            bag_price_rmb_override |-> Coalesce(override[1].bag_price_rmb_override, Null)]
      ELSE [carton_price_rmb_override |-> Null, bag_price_rmb_override |-> Null]

(***************************************************************************)
(* calculateQuote, lines 231-260: validation and packaging resolution.     *)
(***************************************************************************)
\* The margin check with the upper bound included: margin_pct = 1 passes.
MarginOk_UpToOne(margin_pct) == IsFinite(margin_pct) /\ ~Lt(margin_pct, Zero) /\ ~Gt(margin_pct, One)

\* The margin check of line 232 passes.
MarginOk(margin_pct) == IsFinite(margin_pct) /\ ~Lt(margin_pct, Zero) /\ ~Ge(margin_pct, One)

\* unitWeightKg with an override of 0 ignored like a negative one.
UnitWeightKg_PositiveOnly(in, packagingOption) ==
  LET o == in.override_unit_weight_kg
  IN  IF IsFinite(o) /\ Gt(o, Zero) THEN o ELSE packagingOption.unit_weight_kg

\* unitWeightKg, lines 244-247
UnitWeightKg(in, packagingOption) ==
  ToNonNegative(Coalesce(in.override_unit_weight_kg, packagingOption.unit_weight_kg),
                packagingOption.unit_weight_kg)

\* unitsPerCarton with only null, not 0, read as "no cartons".
UnitsPerCarton_NullOnly(in, packagingOption) ==
  LET unitsPerCartonRaw == IF in.override_units_per_carton # Undef
                           THEN in.override_units_per_carton
                           ELSE packagingOption.units_per_carton
  IN  IF unitsPerCartonRaw = Null
      THEN Null
      ELSE Max(One, Round(unitsPerCartonRaw))

\* unitsPerCarton rounded but not raised to 1.
UnitsPerCarton_Rounded(in, packagingOption) ==
  LET unitsPerCartonRaw == IF in.override_units_per_carton # Undef
                           THEN in.override_units_per_carton
                           ELSE packagingOption.units_per_carton
  IN  IF unitsPerCartonRaw = Null \/ unitsPerCartonRaw = Zero
      THEN Null
      ELSE Round(unitsPerCartonRaw)

\* unitsPerCarton, lines 250-257
UnitsPerCarton(in, packagingOption) ==
  LET unitsPerCartonRaw == IF in.override_units_per_carton # Undef
                           THEN in.override_units_per_carton
                           ELSE packagingOption.units_per_carton
  IN  IF unitsPerCartonRaw = Null \/ unitsPerCartonRaw = Zero
      THEN Null
      ELSE Max(One, Round(unitsPerCartonRaw))

\* bagsPerTon, line 259
BagsPerTon(unitWeightKg) == Div(Int2Num(1000), unitWeightKg)

\* The first throw of lines 231-260, or "none".
ValidateError(in) ==
  LET product == FindProduct(in.data, in.product_id)
      packagingOption == FindPackagingOption(in.data, in.packaging_option_id)
      factory == FindFactory(in.data, in.factory_id)
  IN  IF ~EnsurePositive(in.fx_rate) THEN "fx_rate must be greater than 0"
      ELSE IF ~MarginOk(in.margin_pct) THEN "margin_pct must be in [0, 1)"
      ELSE IF ~Found(product) THEN "Product not found"
      ELSE IF ~Found(packagingOption) THEN "Packaging option not found"
      ELSE IF ~Found(factory) THEN "Factory not found"
      ELSE IF packagingOption[1].product_id # product[1].id
      THEN "packaging option does not belong to selected product"
      ELSE IF ~EnsurePositive(UnitWeightKg(in, packagingOption[1]))
      THEN "unit_weight_kg must be greater than 0"
      ELSE IF ~EnsurePositive(BagsPerTon(UnitWeightKg(in, packagingOption[1])))
      THEN "bags_per_ton must be greater than 0"
      ELSE "none"

(***************************************************************************)
(* calculateQuote, lines 262-306: quantity resolution.                     *)
(***************************************************************************)
\* inputTons, lines 265-276: null when the value is not a finite number > 0.
InputTons(in, unitWeightKg) ==
  IF in.qty_input_value # Undef /\ IsFinite(in.qty_input_value) /\ Gt(in.qty_input_value, Zero)
  THEN IF in.qty_input_type = "bags"
       THEN Div(Mul(in.qty_input_value, unitWeightKg), Int2Num(1000))
       ELSE in.qty_input_value
  ELSE Null

\* The auto-downgrade with <= in place of <.
Downgrades_AtCapacity(mode, inputTons, maxTons) ==
  mode = "FCL" /\ inputTons # Null /\ Le(inputTons, maxTons)

\* No auto-downgrade at all.
Downgrades_Never(mode, inputTons, maxTons) == FALSE

\* The condition of the auto-downgrade, line 278.
Downgrades(mode, inputTons, maxTons) == mode = "FCL" /\ inputTons # Null /\ Lt(inputTons, maxTons)

\* The LCL hint guard without its test of qty_input_type.
LclHintMissing_ValueOnly(in) == Falsy(in.qty_input_value) \/ Le(in.qty_input_value, Zero)

\* The guard of line 292 throws.
LclHintMissing(in) ==
  in.qty_input_type \in {"undefined", ""} \/ Falsy(in.qty_input_value) \/ Le(in.qty_input_value, Zero)

\* tons and bags with the bags of a tons hint rounded down.
ResolveTonsBags_Floor(in, mode, maxTons, unitWeightKg, bagsPerTon) ==
  IF mode = "FCL"
  THEN [tons |-> maxTons, bags |-> Ceil(Mul(maxTons, bagsPerTon))]
  ELSE IF in.qty_input_type = "bags"
  THEN LET bags == Ceil(in.qty_input_value)
       IN  [tons |-> Div(Mul(bags, unitWeightKg), Int2Num(1000)), bags |-> bags]
  ELSE [tons |-> in.qty_input_value,
        bags |-> Neg(Ceil(Neg(Mul(in.qty_input_value, bagsPerTon))))]

\* tons and bags with a bags hint used as it is given, not rounded up.
ResolveTonsBags_RawBags(in, mode, maxTons, unitWeightKg, bagsPerTon) ==
  IF mode = "FCL"
  THEN [tons |-> maxTons, bags |-> Ceil(Mul(maxTons, bagsPerTon))]
  ELSE IF in.qty_input_type = "bags"
  THEN [tons |-> Div(Mul(in.qty_input_value, unitWeightKg), Int2Num(1000)), bags |-> in.qty_input_value]
  ELSE [tons |-> in.qty_input_value, bags |-> Ceil(Mul(in.qty_input_value, bagsPerTon))]

\* tons and bags with the FCL tonnage taken from a tons hint when one is given.
ResolveTonsBags_HintInFcl(in, mode, maxTons, unitWeightKg, bagsPerTon) ==
  IF mode = "FCL"
  THEN LET tons == IF in.qty_input_type = "tons" /\ IsFinite(in.qty_input_value)
                   THEN in.qty_input_value
                   ELSE maxTons
       IN  [tons |-> tons, bags |-> Ceil(Mul(tons, bagsPerTon))]
  ELSE IF in.qty_input_type = "bags"
  THEN LET bags == Ceil(in.qty_input_value)
       IN  [tons |-> Div(Mul(bags, unitWeightKg), Int2Num(1000)), bags |-> bags]
  ELSE [tons |-> in.qty_input_value, bags |-> Ceil(Mul(in.qty_input_value, bagsPerTon))]

\* tons and bags with one spare bag added to a full container.
ResolveTonsBags_SpareBag(in, mode, maxTons, unitWeightKg, bagsPerTon) ==
  IF mode = "FCL"
  THEN [tons |-> maxTons, bags |-> Add(Ceil(Mul(maxTons, bagsPerTon)), One)]
  ELSE IF in.qty_input_type = "bags"
  THEN LET bags == Ceil(in.qty_input_value)
       IN  [tons |-> Div(Mul(bags, unitWeightKg), Int2Num(1000)), bags |-> bags]
  ELSE [tons |-> in.qty_input_value, bags |-> Ceil(Mul(in.qty_input_value, bagsPerTon))]

\* tons and bags, lines 285-302, for a mode whose hint guard has passed.
ResolveTonsBags(in, mode, maxTons, unitWeightKg, bagsPerTon) ==
  IF mode = "FCL"
  THEN [tons |-> maxTons, bags |-> Ceil(Mul(maxTons, bagsPerTon))]
  ELSE IF in.qty_input_type = "bags"
  THEN LET bags == Ceil(in.qty_input_value)
       IN  [tons |-> Div(Mul(bags, unitWeightKg), Int2Num(1000)), bags |-> bags]
  ELSE [tons |-> in.qty_input_value, bags |-> Ceil(Mul(in.qty_input_value, bagsPerTon))]

(***************************************************************************)
(* calculateQuote, lines 308-378: cost aggregation.                        *)
(***************************************************************************)
\* bagPriceSource / cartonPriceSource, lines 311-324
PriceSource(callerOverride, factoryOverride) ==
  IF callerOverride # Undef THEN "custom"
  ELSE IF factoryOverride # Null /\ factoryOverride # Undef THEN "override"
  ELSE "default"

\* The effective price with the factory override ahead of the caller override.
EffectivePrice_FactoryFirst(callerOverride, factoryOverride, optionPrice) ==
  Coalesce(factoryOverride, Coalesce(callerOverride, optionPrice))

\* effectiveBagPrice / effectiveCartonPrice, lines 326-333
EffectivePrice(callerOverride, factoryOverride, optionPrice) ==
  Coalesce(callerOverride, Coalesce(factoryOverride, optionPrice))

\* unitsPerCarton && unitsPerCarton > 0
HasCartons(unitsPerCarton) == ~Falsy(unitsPerCarton) /\ Gt(unitsPerCarton, Zero)

\* cartonsInt, lines 335-336
CartonsInt(unitsPerCarton, bagsInt) ==
  IF HasCartons(unitsPerCarton) THEN Ceil(Div(bagsInt, unitsPerCarton)) ELSE Zero

\* cartonRmbPerBag, lines 340-343
CartonRmbPerBag(unitsPerCarton, cartonsInt, effectiveCartonPrice, bagsInt) ==
  IF HasCartons(unitsPerCarton) /\ Gt(cartonsInt, Zero)
  THEN Div(Mul(cartonsInt, ToNonNegative(effectiveCartonPrice, Zero)), bagsInt)
  ELSE Zero

\* rawRmbPerBag without the invoice tax point.
RawRmbPerBag_NoTax(costRmbPerTon, invoice_tax_point, tons, bagsInt) ==
  Div(Mul(costRmbPerTon, tons), bagsInt)

\* rawRmbPerBag, line 338
RawRmbPerBag(costRmbPerTon, invoice_tax_point, tons, bagsInt) ==
  Div(Mul(Mul(costRmbPerTon, Add(One, invoice_tax_point)), tons), bagsInt)

\* findCostPerTon without the ensurePositive of line 106.
CostError_AnyCost(in, l) ==
  IF ~Found(FindCostRow(in.data, l.product.id, l.factory.id))
  THEN "Missing factory product cost"
  ELSE "none"

\* The throw of findCostPerTon (line 308), or "none".
CostError(in, l) ==
  LET cost == FindCostRow(in.data, l.product.id, l.factory.id)
  IN  IF ~Found(cost) THEN "Missing factory product cost"
      ELSE IF ~EnsurePositive(cost[1].cost_rmb_per_ton) THEN "cost_rmb_per_ton must be greater than 0"
      ELSE "none"

\* domesticTotalRmbPerBag with the port charge left out.
DomesticTotalRmbPerBag_NoPort(rawRmbPerBag, bagMatRmbPerBag, cartonRmbPerBag, landRmbPerBag, portRmbPerBag) ==
  Add(Add(Add(rawRmbPerBag, bagMatRmbPerBag), cartonRmbPerBag), landRmbPerBag)

\* domesticTotalRmbPerBag, lines 375-376
DomesticTotalRmbPerBag(rawRmbPerBag, bagMatRmbPerBag, cartonRmbPerBag, landRmbPerBag, portRmbPerBag) ==
  Add(Add(Add(Add(rawRmbPerBag, bagMatRmbPerBag), cartonRmbPerBag), landRmbPerBag), portRmbPerBag)

\* lclPortTotalRmb resolved in FCL quotes too.
LclPortTotalRmb_EitherMode(data, mode, portId, tons) == ResolveLclPortTotalRmb(data, portId, tons)

\* lclPortTotalRmb, lines 362-363: resolved in LCL mode only, null in FCL mode.
LclPortTotalRmb(data, mode, portId, tons) ==
  IF mode = "LCL" THEN ResolveLclPortTotalRmb(data, portId, tons)
  ELSE [value |-> Null, pushed |-> <<>>]

\* The advisory given also when the two port totals are equal.
Advisory_AtEqual(mode, lclPortTotalRmb, fclPortTotalRmb) ==
  IF mode = "LCL" /\ lclPortTotalRmb # Null /\ Ge(lclPortTotalRmb, fclPortTotalRmb)
  THEN <<WarnLclDearer(lclPortTotalRmb, fclPortTotalRmb)>>
  ELSE <<>>

\* The advisory of lines 367-373, as what it appends to warnings.
Advisory(mode, lclPortTotalRmb, fclPortTotalRmb) ==
  IF mode = "LCL" /\ lclPortTotalRmb # Null /\ Gt(lclPortTotalRmb, fclPortTotalRmb)
  THEN <<WarnLclDearer(lclPortTotalRmb, fclPortTotalRmb)>>
  ELSE <<>>

\* Lines 308-378 for locals l (after quantity resolution): the breakdown, both
\* port totals, the provenance flags, and the warnings pushed, in order.
Aggregate(in, l) ==
  LET costRmbPerTon == FindCostRow(in.data, l.product.id, l.factory.id)[1].cost_rmb_per_ton
      packagingOverride == ResolvePackagingOverrides(in.data, l.factory.id, l.packagingOption.id)
      bagPriceSource == PriceSource(in.override_bag_price_rmb, packagingOverride.bag_price_rmb_override)
      cartonPriceSource == PriceSource(in.override_carton_price_rmb, packagingOverride.carton_price_rmb_override)
      effectiveBagPrice == EffectivePrice(in.override_bag_price_rmb,
                                          packagingOverride.bag_price_rmb_override,
                                          l.packagingOption.bag_price_rmb)
      effectiveCartonPrice == EffectivePrice(in.override_carton_price_rmb,
                                             packagingOverride.carton_price_rmb_override,
                                             l.packagingOption.carton_price_rmb)
      cartonsInt == CartonsInt(l.unitsPerCarton, l.bagsInt)
      rawRmbPerBag == RawRmbPerBag(costRmbPerTon, l.product.invoice_tax_point, l.tons, l.bagsInt)
      bagMatRmbPerBag == ToNonNegative(effectiveBagPrice, Zero)
      cartonRmbPerBag == CartonRmbPerBag(l.unitsPerCarton, cartonsInt, effectiveCartonPrice, l.bagsInt)
      land == ResolveLandFreightPerTon(in.data.land_freight_rules, l.mode, l.factory.id,
                                       in.container_type, in.land_fee_override_rmb_per_ton)
      landFreightPerTon == land.value
      landFreightTotal == Mul(landFreightPerTon, l.tons)
      landRmbPerBag == Div(landFreightTotal, l.bagsInt)
      fcl == ResolveFclPortTotalRmb(in.data, l.product.pol_port_id, in.container_type)
      lcl == LclPortTotalRmb(in.data, l.mode, l.product.pol_port_id, l.tons)
      portTotalRmb == IF l.mode = "FCL" THEN fcl.value ELSE Coalesce(lcl.value, Zero)
      portRmbPerBag == Div(portTotalRmb, l.bagsInt)
      dearer == Advisory(l.mode, lcl.value, fcl.value)
      domesticTotalRmbPerBag ==
        DomesticTotalRmbPerBag(rawRmbPerBag, bagMatRmbPerBag, cartonRmbPerBag, landRmbPerBag, portRmbPerBag)
      rebateRmbPerBag == Mul(rawRmbPerBag, l.product.refund_rate)
      netRmbPerBag == Sub(domesticTotalRmbPerBag, rebateRmbPerBag)
  IN  [cartonsInt |-> cartonsInt,
       bagPriceSource |-> bagPriceSource,
       cartonPriceSource |-> cartonPriceSource,
       fclPortTotalRmb |-> fcl.value,
       lclPortTotalRmb |-> lcl.value,
       pushed |-> land.pushed \o fcl.pushed \o lcl.pushed \o dearer,
       breakdown |-> [raw_rmb_per_bag |-> rawRmbPerBag,
                      bag_mat_rmb_per_bag |-> bagMatRmbPerBag,
                      carton_rmb_per_bag |-> cartonRmbPerBag,
                      land_rmb_per_bag |-> landRmbPerBag,
                      land_rmb_per_ton_used |-> landFreightPerTon,
                      land_total_rmb |-> landFreightTotal,
                      port_rmb_per_bag |-> portRmbPerBag,
                      domestic_total_rmb_per_bag |-> domesticTotalRmbPerBag,
                      rebate_rmb_per_bag |-> rebateRmbPerBag,
                      net_rmb_per_bag |-> netRmbPerBag]]

(***************************************************************************)
(* calculateQuote, lines 380-417: price synthesis and the returned value.  *)
(***************************************************************************)
\* sellUsdPerBag with the margin taken off the cost instead of grossed up.
SellUsdPerBag_Discounted(costUsdPerBag, margin_pct) == Mul(costUsdPerBag, Sub(One, margin_pct))

\* sellUsdPerBag, line 381
SellUsdPerBag(costUsdPerBag, margin_pct) == Div(costUsdPerBag, Sub(One, margin_pct))

\* The returned summary, lines 387-403.
Summary(in, l) ==
  LET netRmbPerBag == l.breakdown.net_rmb_per_bag
      costUsdPerBag == Div(netRmbPerBag, in.fx_rate)
      sellUsdPerBag == SellUsdPerBag(costUsdPerBag, in.margin_pct)
      sellRmbPerBag == Mul(sellUsdPerBag, in.fx_rate)
      gpRmbPerBag == Sub(sellRmbPerBag, netRmbPerBag)
      gpRmbTotal == Mul(gpRmbPerBag, l.bagsInt)
  IN  [mode |-> l.mode,
       container_type |-> in.container_type,
       tons |-> l.tons,
       bags |-> l.bagsInt,
       bags_int |-> l.bagsInt,
       cartons_int |-> l.cartonsInt,
       bag_price_source |-> l.bagPriceSource,
       carton_price_source |-> l.cartonPriceSource,
       sell_usd_per_bag |-> sellUsdPerBag,
       net_rmb_per_bag |-> netRmbPerBag,
       cost_usd_per_bag |-> costUsdPerBag,
       gp_rmb_per_bag |-> gpRmbPerBag,
       gp_rmb_total |-> gpRmbTotal,
       fcl_port_total_rmb |-> l.fclPortTotalRmb,
       lcl_port_total_rmb |-> l.lclPortTotalRmb]

(***************************************************************************)
(* Requests.  The reference snapshot and the request fields are drawn from *)
(* small sets around one base request; each family below varies the        *)
(* fields one group of operations reads.  Only the fields calculateQuote   *)
(* reads are kept in the rows (types/domain.ts).                           *)
(***************************************************************************)
\* Rule tables hold at most MaxRules rows.
MaxRules == 2

\* Quantity hints are the halves q/2 for q in -1..MaxQtyHalves.
MaxQtyHalves == 41

SeqsUpTo(S, n) == UNION {[1..k -> S] : k \in 0..n}

Product(id, port) ==
  [id |-> id, refund_rate |-> Rat(9, 100), invoice_tax_point |-> Rat(3, 100), pol_port_id |-> port]

PackagingOption(id, productId, unitWeightKg, unitsPerCarton) ==
  [id |-> id, product_id |-> productId, unit_weight_kg |-> unitWeightKg,
   units_per_carton |-> unitsPerCarton, carton_price_rmb |-> Int2Num(2), bag_price_rmb |-> Rat(4, 5)]

Factory(id) == [id |-> id]

CostRow(factoryId, productId, cost) ==
  [factory_id |-> factoryId, product_id |-> productId, cost_rmb_per_ton |-> cost]

LoadRule(productId, containerType, maxTons) ==
  [product_id |-> productId, container_type |-> containerType, max_tons |-> maxTons]

PortRule(mode, containerType, portId, base, extra) ==
  [mode |-> mode, container_type |-> containerType, port_id |-> portId,
   base_rmb |-> base, extra_rmb_per_ton |-> extra]

LandRule(mode, containerType, factoryId, default) ==
  [mode |-> mode, container_type |-> containerType, factory_id |-> factoryId,
   default_rmb_per_ton |-> default]

PackagingOverride(factoryId, packagingOptionId, bag, carton) ==
  [factory_id |-> factoryId, packaging_option_id |-> packagingOptionId,
   bag_price_rmb_override |-> bag, carton_price_rmb_override |-> carton]

BaseData ==
  [products |-> <<Product("p1", "pt1"), Product("p2", "pt2")>>,
   packaging_options |-> <<PackagingOption("k1", "p1", Int2Num(500), Int2Num(4)),
                           PackagingOption("k2", "p2", Int2Num(25), Null),
                           PackagingOption("k3", "p1", Zero, Int2Num(4))>>,
   factories |-> <<Factory("f1"), Factory("f2")>>,
   factory_product_costs |-> <<CostRow("f1", "p1", Int2Num(3000))>>,
   port_charges_rules |-> <<>>,
   container_load_rules |-> <<LoadRule("p1", "20GP", Int2Num(5))>>,
   land_freight_rules |-> <<>>,
   factory_packaging_overrides |-> <<>>]

BaseRequest ==
  [data |-> BaseData,
   product_id |-> "p1",
   packaging_option_id |-> "k1",
   factory_id |-> "f1",
   mode |-> "FCL",
   container_type |-> "20GP",
   fx_rate |-> Int2Num(7),
   margin_pct |-> Rat(1, 5),
   qty_input_type |-> "undefined",
   qty_input_value |-> Undef,
   override_unit_weight_kg |-> Undef,
   override_units_per_carton |-> Undef,
   override_bag_price_rmb |-> Undef,
   override_carton_price_rmb |-> Undef,
   land_fee_override_rmb_per_ton |-> Undef]

Modes == {"FCL", "LCL"}

ContainerTypes == {"20GP", "40HQ"}

QtyInputTypes == {"undefined", "tons", "bags"}

QtyValues == {Undef, NaN, Inf} \cup {Rat(q, 2) : q \in -1..MaxQtyHalves}

LoadRuleRows == {LoadRule("p1", "20GP", Int2Num(5)), LoadRule("p1", "20GP", Zero),
                 LoadRule("p2", "20GP", Int2Num(9))}

\* Mode, hint type, hint value and the container-load table.
QuantityRequests ==
  {[BaseRequest EXCEPT !.mode = m, !.container_type = c, !.qty_input_type = t,
                       !.qty_input_value = v, !.data.container_load_rules = rules] :
     m \in Modes, c \in ContainerTypes, t \in QtyInputTypes, v \in QtyValues,
     rules \in SeqsUpTo(LoadRuleRows, MaxRules)}

\* Container-load rows that do not match (p1, 20GP): an empty product_id, another
\* container type, another product.
OtherLoadRuleRows == {LoadRule("", "20GP", Int2Num(8)), LoadRule("p1", "40HQ", Int2Num(6)),
                      LoadRule("p2", "20GP", Int2Num(9))}

\* FCL requests around the substituted capacity, with no matching container-load row.
LoadFallbackRequests ==
  {[BaseRequest EXCEPT !.qty_input_type = t, !.qty_input_value = v,
                       !.data.container_load_rules = rules] :
     t \in QtyInputTypes,
     v \in {Undef, Int2Num(7), Int2Num(10), Rat(39, 2), Int2Num(20), Int2Num(39), Int2Num(40)},
     rules \in SeqsUpTo(OtherLoadRuleRows, MaxRules)}

\* A mode with a hint: FCL without hint, LCL of 1/2 and 5/2 tons, FCL downgraded at 5/2 tons.
ModeHints ==
  {<<"FCL", "undefined", Undef>>, <<"LCL", "tons", Rat(1, 2)>>, <<"LCL", "tons", Rat(5, 2)>>,
   <<"FCL", "tons", Rat(5, 2)>>, <<"LCL", "bags", Rat(7, 2)>>}

PortRuleRows ==
  {PortRule("FCL", "20GP", "pt1", Int2Num(3000), Zero),
   PortRule("FCL", "20GP", "null", Int2Num(3600), Zero),
   PortRule("FCL", "20GP", "", Int2Num(-100), Zero),
   PortRule("FCL", "40HQ", "pt1", Int2Num(4000), Zero),
   PortRule("FCL", "20GP", "pt2", Int2Num(999), Zero),
   PortRule("FCL", "20GP", "pt1", Int2Num(400), Zero),
   PortRule("LCL", "null", "pt1", Int2Num(300), Int2Num(50)),
   PortRule("LCL", "null", "null", Int2Num(5000), Int2Num(40)),
   PortRule("LCL", "20GP", "pt1", Int2Num(700), Int2Num(70)),
   PortRule("LCL", "null", "", Int2Num(-20), Int2Num(-5))}

\* The port-charge table.
PortRequests ==
  {[BaseRequest EXCEPT !.mode = mh[1], !.qty_input_type = mh[2], !.qty_input_value = mh[3],
                       !.container_type = c, !.data.port_charges_rules = rules] :
     mh \in ModeHints, c \in ContainerTypes, rules \in SeqsUpTo(PortRuleRows, MaxRules)}

LandRuleRows ==
  {LandRule("FCL", "20GP", "f1", Int2Num(120)),
   LandRule("FCL", "20GP", "null", Int2Num(90)),
   LandRule("FCL", "20GP", "", Int2Num(60)),
   LandRule("LCL", "20GP", "f1", Int2Num(200)),
   LandRule("LCL", "20GP", "null", Int2Num(-30)),
   LandRule("FCL", "40HQ", "f1", Int2Num(150)),
   LandRule("FCL", "20GP", "f2", Int2Num(77))}

LandOverrides == {Undef, Zero, Int2Num(80), Int2Num(-5), NaN}

\* The inland-freight table and the per-call override.
LandRequests ==
  {[BaseRequest EXCEPT !.mode = mh[1], !.qty_input_type = mh[2], !.qty_input_value = mh[3],
                       !.container_type = c, !.land_fee_override_rmb_per_ton = o,
                       !.data.land_freight_rules = rules] :
     mh \in ModeHints \ {<<"LCL", "tons", Rat(1, 2)>>, <<"LCL", "bags", Rat(7, 2)>>},
     c \in ContainerTypes, o \in LandOverrides,
     rules \in SeqsUpTo(LandRuleRows, MaxRules)}

PackagingOverrideRows ==
  {PackagingOverride("f1", "k1", Rat(1, 2), Null),
   PackagingOverride("f1", "k1", Null, Int2Num(3)),
   PackagingOverride("f1", "k1", Undef, Rat(7, 2)),
   PackagingOverride("f2", "k1", Rat(9, 10), Int2Num(9)),
   PackagingOverride("f1", "k2", Rat(6, 10), Int2Num(6))}

\* The packaging prices, their overrides, and units per carton.
PackagingRequests ==
  {[BaseRequest EXCEPT !.override_bag_price_rmb = b, !.override_carton_price_rmb = c,
                       !.override_units_per_carton = u,
                       !.data.factory_packaging_overrides = rules] :
     b \in {Undef, Rat(3, 10), Int2Num(-1), NaN}, c \in {Undef, Rat(5, 2)},
     u \in {Undef, Null, Zero, Int2Num(3), Rat(2, 5), Rat(5, 2), Int2Num(-3), NaN},
     rules \in SeqsUpTo(PackagingOverrideRows, MaxRules)}

\* fx_rate and margin_pct.
RateRequests ==
  {[BaseRequest EXCEPT !.fx_rate = fx, !.margin_pct = m, !.mode = mh[1],
                       !.qty_input_type = mh[2], !.qty_input_value = mh[3]] :
     fx \in {NaN, Inf, Zero, Int2Num(-7), Int2Num(7)},
     m \in {NaN, Inf, Rat(-1, 10), Zero, Rat(1, 5), One, Rat(3, 2)},
     mh \in ModeHints}

CostRows ==
  {CostRow("f1", "p1", Int2Num(3000)), CostRow("f1", "p1", Zero), CostRow("f1", "p1", NaN),
   CostRow("f2", "p1", Int2Num(2500)), CostRow("f1", "p2", Int2Num(2000))}

\* The referenced ids and the factory-product cost table.
ReferenceRequests ==
  {[BaseRequest EXCEPT !.product_id = p, !.packaging_option_id = k, !.factory_id = f,
                       !.data.factory_product_costs = rules] :
     p \in {"p1", "p2", "px"}, k \in {"k1", "k2", "k3", "kx"}, f \in {"f1", "f2", "fx"},
     rules \in SeqsUpTo(CostRows, MaxRules)}

\* The unit weight and its override.
UnitWeightRequests ==
  {[BaseRequest EXCEPT !.packaging_option_id = k, !.override_unit_weight_kg = w, !.mode = m,
                       !.qty_input_type = t, !.qty_input_value = v] :
     k \in {"k1", "k3"},
     w \in {Undef, Zero, Int2Num(-25), Int2Num(400), Int2Num(750), NaN, Inf},
     m \in Modes, t \in QtyInputTypes,
     v \in {Undef, Rat(9, 2), Rat(19, 2), Int2Num(12), Rat(13, 2), Rat(25, 2)}}

\* Margins in [0, 1).
Margins == {Zero, Rat(1, 10), Rat(1, 5), Rat(1, 2), Rat(9, 10)}

\* Refund rates: the usual 9%, the rate at which the base request's net cost is 0,
\* and a rate of 200%.
RefundRates == {Rat(9, 100), Rat(9482, 7725), Int2Num(2)}

\* margin_pct against the refund rate of the product, which sets the sign of the net cost.
MarginRequests ==
  {[BaseRequest EXCEPT !.margin_pct = m, !.fx_rate = fx,
                       !.data.products = <<[Product("p1", "pt1") EXCEPT !.refund_rate = r],
                                           Product("p2", "pt2")>>] :
     m \in Margins, fx \in {Int2Num(7), Rat(13, 2)}, r \in RefundRates}

\* The request of scenario A: bags of 25 kg, a 20GP container-load rule of 17.5 tons,
\* 3000 RMB per ton, tax point 3%, refund 9%, and no packaging-override,
\* inland-freight or port-charge rows.
ScenarioA ==
  [BaseRequest EXCEPT
     !.data.packaging_options = <<PackagingOption("k1", "p1", Int2Num(25), Null)>>,
     !.data.container_load_rules = <<LoadRule("p1", "20GP", Rat(35, 2))>>]

\* Scenario A and its neighbours: the other container type, LCL and downgraded requests.
ScenarioRequests ==
  {[ScenarioA EXCEPT !.mode = mh[1], !.qty_input_type = mh[2], !.qty_input_value = mh[3],
                     !.container_type = c] :
     mh \in ModeHints, c \in ContainerTypes}

\* Invoice tax points, finite as the admin table requires, down to below -100%.
TaxPoints == {Int2Num(-2), Int2Num(-1), Zero, Rat(3, 100), Rat(13, 100)}

\* The refund rate and the invoice tax point of the product.
TaxRequests ==
  {[BaseRequest EXCEPT !.mode = mh[1], !.qty_input_type = mh[2], !.qty_input_value = mh[3],
                       !.data.products =
                          <<[Product("p1", "pt1") EXCEPT !.refund_rate = r, !.invoice_tax_point = t],
                            Product("p2", "pt2")>>] :
     mh \in ModeHints, r \in {Zero, Rat(9, 100), One, Int2Num(2)}, t \in TaxPoints}

(***************************************************************************)
(* The steps of one call of calculateQuote.                                *)
(***************************************************************************)
NoResult == [returned |-> FALSE]

\* No second call.
Idle == [pc |-> "idle", n |-> 0]

\* Lines 262-306 for the locals l of a validated request.
Quantity(in, l) ==
  LET max == ResolveContainerMaxTons(in.data, l.product.id, in.container_type)
      maxTons == max.value
      inputTons == InputTons(in, l.unitWeightKg)
      down == Downgrades(in.mode, inputTons, maxTons)
      mode == IF down THEN "LCL" ELSE in.mode
      tb == ResolveTonsBags(in, mode, maxTons, l.unitWeightKg, l.bagsPerTon)
  IN  [maxTons |-> maxTons,
       mode |-> mode,
       pushed |-> max.pushed \o (IF down THEN <<WarnDowngrade(maxTons)>> ELSE <<>>),
       error |-> IF mode = "LCL" /\ LclHintMissing(in)
                 THEN "LCL mode requires qty_input_type and qty_input_value"
                 ELSE IF ~EnsurePositive(tb.tons) THEN "tons must be greater than 0"
                 ELSE IF ~EnsurePositive(tb.bags) THEN "bags must be greater than 0"
                 ELSE "none",
       tons |-> tb.tons,
       bags |-> tb.bags]

Validate ==
  /\ pc = "start"
  /\ LET e == ValidateError(input)
         product == FindProduct(input.data, input.product_id)[1]
         packagingOption == FindPackagingOption(input.data, input.packaging_option_id)[1]
         factory == FindFactory(input.data, input.factory_id)[1]
     IN  IF e # "none"
         THEN /\ pc' = "error"
              /\ error' = e
              /\ loc' = loc
         ELSE /\ pc' = "validated"
              /\ error' = error
              /\ loc' = [product |-> product,
                         packagingOption |-> packagingOption,
                         factory |-> factory,
                         unitWeightKg |-> UnitWeightKg(input, packagingOption),
                         unitsPerCarton |-> UnitsPerCarton(input, packagingOption),
                         bagsPerTon |-> BagsPerTon(UnitWeightKg(input, packagingOption))]
  /\ UNCHANGED <<input, warnings, result, other>>

ResolveQuantity ==
  /\ pc = "validated"
  /\ LET q == Quantity(input, loc)
     IN  /\ warnings' = warnings \o q.pushed
         /\ IF q.error # "none"
            THEN /\ pc' = "error"
                 /\ error' = q.error
                 /\ loc' = loc
            ELSE /\ pc' = "quantified"
                 /\ error' = error
                 /\ loc' = [maxTons |-> q.maxTons, mode |-> q.mode, tons |-> q.tons,
                            bags |-> q.bags, bagsInt |-> Ceil(q.bags)] @@ loc
  /\ UNCHANGED <<input, result, other>>

AggregateCost ==
  /\ pc = "quantified"
  /\ LET e == CostError(input, loc)
     IN  IF e # "none"
         THEN /\ pc' = "error"
              /\ error' = e
              /\ UNCHANGED <<loc, warnings>>
         ELSE LET a == Aggregate(input, loc)
              IN  /\ pc' = "costed"
                  /\ error' = error
                  /\ warnings' = warnings \o a.pushed
                  /\ loc' = [cartonsInt |-> a.cartonsInt,
                             bagPriceSource |-> a.bagPriceSource,
                             cartonPriceSource |-> a.cartonPriceSource,
                             fclPortTotalRmb |-> a.fclPortTotalRmb,
                             lclPortTotalRmb |-> a.lclPortTotalRmb,
                             breakdown |-> a.breakdown] @@ loc
  /\ UNCHANGED <<input, result, other>>

SynthesizePrice ==
  /\ pc = "costed"
  /\ pc' = "done"
  /\ result' = [returned |-> TRUE,
                summary |-> Summary(input, loc),
                breakdown |-> loc.breakdown,
                warnings |-> warnings]
  /\ UNCHANGED <<input, warnings, error, loc, other>>

Next == Validate \/ ResolveQuantity \/ AggregateCost \/ SynthesizePrice

\* A call starts with a request of one of the families and an empty warnings list.
Init ==
  /\ \/ input \in QuantityRequests
     \/ input \in LoadFallbackRequests
     \/ input \in MarginRequests
     \/ input \in ScenarioRequests
     \/ input \in TaxRequests
     \/ input \in PortRequests
     \/ input \in LandRequests
     \/ input \in PackagingRequests
     \/ input \in RateRequests
     \/ input \in ReferenceRequests
     \/ input \in UnitWeightRequests
  /\ pc = "start"
  /\ warnings = <<>>
  /\ error = "none"
  /\ loc = [product |-> "none"]
  /\ result = NoResult
  /\ other = Idle

Spec == Init /\ [][Next]_vars

(***************************************************************************)
(* Two calls.  calculateQuote keeps nothing between calls: its warnings     *)
(* list is created at line 228 and everything else is a const local; the    *)
(* module's only top-level value is the constant FALLBACK_FCL_PORT.  The    *)
(* second call may begin at any point of the first, run to its end and be   *)
(* followed by further calls, each with a request of its own.               *)
(***************************************************************************)
\* Calls that `other` makes, one after the other.
MaxCalls == 2

\* Requests with different outcomes: results with and without downgrade, and a throw
\* in validation, in quantity resolution and in the cost lookup.
TwoCallRequests ==
  ScenarioRequests
    \cup {BaseRequest, [BaseRequest EXCEPT !.fx_rate = Zero], [BaseRequest EXCEPT !.mode = "LCL"],
          [BaseRequest EXCEPT !.factory_id = "f2"]}

\* A warnings list that is the list another call is filling.
StartWarnings_Shared(current) == current

\* const warnings: string[] = [] (line 228): a new empty list, whatever list
\* another call currently holds.
StartWarnings(current) == <<>>

\* One step of a call c = [input, pc, warnings, error, loc, result, n]: the step
\* Validate, ResolveQuantity, AggregateCost or SynthesizePrice takes at c.pc.
Step(c) ==
  IF c.pc = "start"
  THEN LET e == ValidateError(c.input)
           packagingOption == FindPackagingOption(c.input.data, c.input.packaging_option_id)[1]
       IN  IF e # "none"
           THEN [c EXCEPT !.pc = "error", !.error = e]
           ELSE [c EXCEPT !.pc = "validated",
                          !.loc = [product |-> FindProduct(c.input.data, c.input.product_id)[1],
                                   packagingOption |-> packagingOption,
                                   factory |-> FindFactory(c.input.data, c.input.factory_id)[1],
                                   unitWeightKg |-> UnitWeightKg(c.input, packagingOption),
                                   unitsPerCarton |-> UnitsPerCarton(c.input, packagingOption),
                                   bagsPerTon |-> BagsPerTon(UnitWeightKg(c.input, packagingOption))]]
  ELSE IF c.pc = "validated"
  THEN LET q == Quantity(c.input, c.loc)
       IN  IF q.error # "none"
           THEN [c EXCEPT !.pc = "error", !.error = q.error, !.warnings = c.warnings \o q.pushed]
           ELSE [c EXCEPT !.pc = "quantified", !.warnings = c.warnings \o q.pushed,
                          !.loc = [maxTons |-> q.maxTons, mode |-> q.mode, tons |-> q.tons,
                                   bags |-> q.bags, bagsInt |-> Ceil(q.bags)] @@ c.loc]
  ELSE IF c.pc = "quantified"
  THEN LET e == CostError(c.input, c.loc)
           a == Aggregate(c.input, c.loc)
       IN  IF e # "none"
           THEN [c EXCEPT !.pc = "error", !.error = e]
           ELSE [c EXCEPT !.pc = "costed", !.warnings = c.warnings \o a.pushed,
                          !.loc = [cartonsInt |-> a.cartonsInt,
                                   bagPriceSource |-> a.bagPriceSource,
                                   cartonPriceSource |-> a.cartonPriceSource,
                                   fclPortTotalRmb |-> a.fclPortTotalRmb,
                                   lclPortTotalRmb |-> a.lclPortTotalRmb,
                                   breakdown |-> a.breakdown] @@ c.loc]
  ELSE [c EXCEPT !.pc = "done",
                 !.result = [returned |-> TRUE,
                             summary |-> Summary(c.input, c.loc),
                             breakdown |-> c.loc.breakdown,
                             warnings |-> c.warnings]]

\* The second call begins, at any point of the first call.
OtherBegin ==
  /\ other.pc \in {"idle", "done", "error"}
  /\ other.n < MaxCalls
  /\ \E in \in TwoCallRequests :
       other' = [input |-> in, pc |-> "start", warnings |-> StartWarnings(warnings),
                 error |-> "none", loc |-> [product |-> "none"], result |-> NoResult,
                 n |-> other.n + 1]
  /\ UNCHANGED <<input, pc, warnings, error, loc, result>>

\* The second call takes its next step.
OtherStep ==
  /\ other.pc \in {"start", "validated", "quantified", "costed"}
  /\ other' = Step(other)
  /\ UNCHANGED <<input, pc, warnings, error, loc, result>>

NextTwoCalls ==
  Validate \/ ResolveQuantity \/ AggregateCost \/ SynthesizePrice \/ OtherBegin \/ OtherStep

InitTwoCalls ==
  /\ input \in TwoCallRequests
  /\ pc = "start"
  /\ warnings = <<>>
  /\ error = "none"
  /\ loc = [product |-> "none"]
  /\ result = NoResult
  /\ other = Idle

SpecTwoCalls == InitTwoCalls /\ [][NextTwoCalls]_vars

(***************************************************************************)
(* Properties.                                                             *)
(***************************************************************************)
\* The call has returned a result.
Returned == pc = "done"

Holds(w, ws) == \E i \in DOMAIN ws : ws[i] = w

Count(w, ws) == Cardinality({i \in DOMAIN ws : ws[i] = w})

\* A quantity hint with a type and a finite value > 0.
PositiveHint(in) ==
  in.qty_input_type \in {"tons", "bags"} /\ in.qty_input_value.k = "num" /\ in.qty_input_value.n > 0

\* The hint in tons: bags * unit_weight_kg / 1000 for a bags hint.
HintTons(in, unitWeightKg) ==
  IF in.qty_input_type = "bags"
  THEN Rat(in.qty_input_value.n * unitWeightKg.n, in.qty_input_value.d * unitWeightKg.d * 1000)
  ELSE in.qty_input_value

\* a < b for two rationals.
Below(a, b) == a.n * b.d < b.n * a.d

ValidationErrors ==
  {"fx_rate must be greater than 0", "margin_pct must be in [0, 1)", "Product not found",
   "Packaging option not found", "Factory not found",
   "packaging option does not belong to selected product",
   "unit_weight_kg must be greater than 0", "bags_per_ton must be greater than 0"}

QuantityErrors ==
  {"LCL mode requires qty_input_type and qty_input_value", "tons must be greater than 0",
   "bags must be greater than 0"}

\* C1: an FCL request with a positive hint that is, in tons, strictly below the
\* resolved max_tons returns mode LCL with the downgrade notice among its warnings,
\* and never fails in quantity resolution; a positive hint at or above max_tons
\* returns mode FCL without the notice.
C1_AutoDowngrade ==
  /\ (Returned /\ input.mode = "FCL" /\ PositiveHint(input))
       => IF Below(HintTons(input, loc.unitWeightKg), loc.maxTons)
          THEN /\ result.summary.mode = "LCL"
               /\ Holds(WarnDowngrade(loc.maxTons), result.warnings)
               /\ result.warnings # <<>>
          ELSE /\ result.summary.mode = "FCL"
               /\ ~Holds(WarnDowngrade(loc.maxTons), result.warnings)
  /\ (pc = "error" /\ input.mode = "FCL" /\ PositiveHint(input)) => error \notin QuantityErrors

\* A bags hint below capacity has been downgraded.
C1_Witness ==
  /\ Returned /\ input.mode = "FCL" /\ input.qty_input_type = "bags"
  /\ result.summary.mode = "LCL"
  /\ Holds(WarnDowngrade(loc.maxTons), result.warnings)

\* The container-load rows for the request's (product_id, container_type).
MatchingLoadRules(in) ==
  {i \in DOMAIN in.data.container_load_rules :
     /\ in.data.container_load_rules[i].product_id = in.product_id
     /\ in.data.container_load_rules[i].container_type = in.container_type}

FirstLoadRule(in) ==
  in.data.container_load_rules[CHOOSE i \in MatchingLoadRules(in) : \A j \in MatchingLoadRules(in) : i <= j]

\* max_tons as C2 words it: the rule's value, or 20 when the rule is missing.
RuleOrTwenty(in) ==
  IF MatchingLoadRules(in) = {} THEN Rat(20, 1) ELSE FirstLoadRule(in).max_tons

\* max_tons: the first matching rule's value when it is a finite number > 0, else 20.
ValidRuleOrTwenty(in) ==
  IF MatchingLoadRules(in) # {} /\ FirstLoadRule(in).max_tons.k = "num" /\ FirstLoadRule(in).max_tons.n > 0
  THEN FirstLoadRule(in).max_tons
  ELSE Rat(20, 1)

\* An FCL request with no hint value, or a positive hint not below capacity maxTons.
FclAtCapacity(in, unitWeightKg, maxTons) ==
  /\ in.mode = "FCL"
  /\ \/ in.qty_input_value = Undef
     \/ PositiveHint(in) /\ maxTons.k = "num" /\ ~Below(HintTons(in, unitWeightKg), maxTons)

\* ceil(tons * 1000 / unit_weight_kg) as a number.
BagsFor(tons, unitWeightKg) ==
  Rat(-((-(tons.n * 1000 * unitWeightKg.d)) \div (tons.d * unitWeightKg.n)), 1)

\* C2 as stated: an FCL request with no hint, or a hint not below capacity, returns
\* mode FCL, tons = the rule's max_tons (20 when the rule is missing) and
\* bags = ceil(max_tons * 1000 / unit_weight_kg).
C2_FclInvariant_AsStated ==
  (Returned /\ FclAtCapacity(input, loc.unitWeightKg, RuleOrTwenty(input)))
    => /\ result.summary.mode = "FCL"
       /\ result.summary.tons = RuleOrTwenty(input)
       /\ result.summary.bags = BagsFor(RuleOrTwenty(input), loc.unitWeightKg)

\* C2 (amended): an FCL request with no hint, or a hint not below capacity, returns
\* mode FCL, tons = max_tons and bags = ceil(max_tons * 1000 / unit_weight_kg), where
\* max_tons is the first matching rule's value when that is a finite number > 0 and
\* 20 when the rule is missing or its max_tons is not a finite number > 0.
C2_FclInvariant ==
  (Returned /\ FclAtCapacity(input, loc.unitWeightKg, ValidRuleOrTwenty(input)))
    => /\ result.summary.mode = "FCL"
       /\ result.summary.tons = ValidRuleOrTwenty(input)
       /\ result.summary.bags = BagsFor(ValidRuleOrTwenty(input), loc.unitWeightKg)

\* An FCL result whose tons hint lies above max_tons and was not used for tons.
C2_Witness ==
  /\ Returned /\ result.summary.mode = "FCL"
  /\ PositiveHint(input) /\ input.qty_input_type = "tons"
  /\ Below(result.summary.tons, input.qty_input_value)
  /\ result.summary.tons = ValidRuleOrTwenty(input)

\* fx_rate is a finite number > 0.
ValidFx(fx_rate) == fx_rate.k = "num" /\ fx_rate.n > 0

\* margin_pct is a finite number in [0, 1).
ValidMargin(margin_pct) == margin_pct.k = "num" /\ margin_pct.n >= 0 /\ margin_pct.n < margin_pct.d

\* C3: a call whose fx_rate is not a finite number > 0 or whose margin_pct is not a
\* finite number in [0, 1) ends in the fx_rate or margin_pct error at validation,
\* before any quantity or price is computed, and returns nothing; every returned
\* sell_usd_per_bag is a finite number.
C3_RejectsBadRates ==
  /\ (~ValidFx(input.fx_rate) \/ ~ValidMargin(input.margin_pct))
       => /\ pc \in {"start", "error"}
          /\ result = NoResult
          /\ pc = "error" => error = IF ~ValidFx(input.fx_rate)
                                     THEN "fx_rate must be greater than 0"
                                     ELSE "margin_pct must be in [0, 1)"
  /\ Returned => result.summary.sell_usd_per_bag.k = "num"

\* margin_pct = 1 with a valid fx_rate has been rejected.
C3_Witness ==
  /\ pc = "error" /\ input.margin_pct = One /\ ValidFx(input.fx_rate)
  /\ error = "margin_pct must be in [0, 1)" /\ result = NoResult

Ids(rows) == {rows[i].id : i \in DOMAIN rows}

Row(rows, id) == rows[CHOOSE i \in DOMAIN rows : rows[i].id = id /\ \A j \in 1..(i - 1) : rows[j].id # id]

\* A referenced id is not in the snapshot, or the packaging option is of another product.
BadReference(in) ==
  \/ in.product_id \notin Ids(in.data.products)
  \/ in.packaging_option_id \notin Ids(in.data.packaging_options)
  \/ in.factory_id \notin Ids(in.data.factories)
  \/ Row(in.data.packaging_options, in.packaging_option_id).product_id # in.product_id

CostRowsFor(in) ==
  {i \in DOMAIN in.data.factory_product_costs :
     /\ in.data.factory_product_costs[i].factory_id = in.factory_id
     /\ in.data.factory_product_costs[i].product_id = in.product_id}

\* No cost row for (factory, product), or the cost of the (first) row is not a finite number > 0.
BadCost(in) ==
  \/ CostRowsFor(in) = {}
  \/ LET c == in.data.factory_product_costs[CHOOSE i \in CostRowsFor(in) : \A j \in CostRowsFor(in) : i <= j]
     IN  ~(c.cost_rmb_per_ton.k = "num" /\ c.cost_rmb_per_ton.n > 0)

\* C4: a call with an unknown product, packaging option or factory, or a packaging
\* option of another product, goes no further than validation; a call with no positive
\* finite cost for (factory, product) goes no further than the cost lookup; neither
\* returns a result.
C4_RejectsBadReferences ==
  /\ BadReference(input) => pc \in {"start", "error"} /\ result = NoResult
  /\ BadCost(input) => pc \in {"start", "validated", "quantified", "error"} /\ result = NoResult

\* A non-positive cost has been rejected after the quantity was resolved.
C4_Witness ==
  /\ pc = "error" /\ error = "cost_rmb_per_ton must be greater than 0"
  /\ ~BadReference(input) /\ BadCost(input)
  /\ result = NoResult

\* The resolved mode is LCL (requested, or reached by auto-downgrade of an untyped
\* value read as tons) and the request has no typed positive hint.
LclWithoutHint(in) ==
  \/ in.mode = "LCL" /\ ~PositiveHint(in)
  \/ /\ in.mode = "FCL" /\ in.qty_input_type \notin {"tons", "bags"}
     /\ in.qty_input_value.k = "num" /\ in.qty_input_value.n > 0
     /\ Below(in.qty_input_value, ValidRuleOrTwenty(in))

\* C5: when the resolved mode is LCL and the quantity hint is missing or non-positive
\* the call ends in an error at quantity resolution at the latest and returns nothing;
\* every LCL result comes from a typed positive hint, and every result has finite
\* tons > 0 and bags > 0.
C5_LclNeedsHint ==
  /\ LclWithoutHint(input)
       => /\ pc \in {"start", "validated", "error"}
          /\ result = NoResult
          /\ (pc = "error" /\ error \notin ValidationErrors) => error \in QuantityErrors
  /\ Returned
       => /\ result.summary.mode = "LCL" => PositiveHint(input)
          /\ result.summary.tons.k = "num" /\ result.summary.tons.n > 0
          /\ result.summary.bags.k = "num" /\ result.summary.bags.n > 0

\* An FCL request with an untyped value below capacity was downgraded and then rejected.
C5_Witness ==
  /\ pc = "error" /\ error = "LCL mode requires qty_input_type and qty_input_value"
  /\ input.mode = "FCL" /\ LclWithoutHint(input)
  /\ Holds(WarnDowngrade(ValidRuleOrTwenty(input)), warnings)

\* The resolved unit weight is not a finite number > 0.
BadUnitWeight(in) ==
  /\ ~BadReference(in)
  /\ LET w == UnitWeightKg(in, Row(in.data.packaging_options, in.packaging_option_id))
     IN  ~(w.k = "num" /\ w.n > 0)

\* The fatal conditions: none of them reads a rule table.
Fatal(in) ==
  \/ ~ValidFx(in.fx_rate)
  \/ ~ValidMargin(in.margin_pct)
  \/ BadReference(in)
  \/ BadUnitWeight(in)
  \/ LclWithoutHint(in)
  \/ BadCost(in)

\* The port of loading of the selected product.
PolPort(in) == Row(in.data.products, in.product_id).pol_port_id

\* Some port-charge row matches (mode, containerType, port or wildcard).
HasPortRule(in, mode, containerType) ==
  \E i \in DOMAIN in.data.port_charges_rules :
    LET r == in.data.port_charges_rules[i]
    IN  r.mode = mode /\ r.container_type = containerType /\ r.port_id \in {PolPort(in), "null", ""}

\* Some inland-freight row matches (mode, container_type, factory or wildcard).
HasLandRule(in, mode) ==
  \E i \in DOMAIN in.data.land_freight_rules :
    LET r == in.data.land_freight_rules[i]
    IN  r.mode = mode /\ r.container_type = in.container_type /\ r.factory_id \in {in.factory_id, "null", ""}

ValidLandOverride(in) ==
  in.land_fee_override_rmb_per_ton.k = "num" /\ in.land_fee_override_rmb_per_ton.n >= 0

B2N(b) == IF b THEN 1 ELSE 0

\* The warnings of the missing-rule fallbacks, as they appear in the returned list.
LoadFallbackWarnings(ws, in) ==
  Count(WarnNoLoadRule(in.container_type), ws) + Count(WarnBadLoadRule(in.container_type), ws)

FclPortFallbackWarnings(ws, in) ==
  Count(WarnNoPortRule(in.container_type, "FCL", FALLBACK_FCL_PORT(in.container_type)), ws)

LclPortFallbackWarnings(ws) == Count(WarnNoLclPortRule, ws)

LandFallbackWarnings(ws, in, mode) == Count(WarnNoPortRule(in.container_type, mode, Zero), ws)

OtherWarnings(ws) ==
  Cardinality({i \in DOMAIN ws : ws[i].text \in {"hint below max_tons, switched to LCL",
                                                   "LCL port charge above FCL, choose FCL"}})

FactoryOverrideRows(in) ==
  {i \in DOMAIN in.data.factory_packaging_overrides :
     /\ in.data.factory_packaging_overrides[i].factory_id = in.factory_id
     /\ in.data.factory_packaging_overrides[i].packaging_option_id = in.packaging_option_id}

\* The factory override prices <<bag, carton>> of the request, Null where there is none.
FactoryOverridePrices(in) ==
  IF FactoryOverrideRows(in) = {} THEN <<Null, Null>>
  ELSE LET i == CHOOSE j \in FactoryOverrideRows(in) : \A k \in FactoryOverrideRows(in) : j <= k
           r == in.data.factory_packaging_overrides[i]
       IN  <<r.bag_price_rmb_override, r.carton_price_rmb_override>>

Given(x) == x # Undef /\ x # Null

ChosenSource(caller, factory) ==
  IF Given(caller) THEN "custom" ELSE IF Given(factory) THEN "override" ELSE "default"

ChosenPrice(caller, factory, default) ==
  IF Given(caller) THEN caller ELSE IF Given(factory) THEN factory ELSE default

\* A price clamped to be non-negative.
Clamped(x) == IF x.k = "num" /\ x.n >= 0 THEN x ELSE Zero

\* C7: for the bag price and for the carton price, the price used is the caller
\* override when given, else the non-null factory packaging override of
\* (factory_id, packaging_option_id), else the option's default; the source flag is
\* 'custom', 'override' or 'default' accordingly; bag_mat_rmb_per_bag is the chosen
\* bag price clamped to be non-negative, and the carton cost per bag is computed
\* from the chosen carton price, clamped.
C7_PricePrecedence ==
  Returned
    => LET option == Row(input.data.packaging_options, input.packaging_option_id)
           fo == FactoryOverridePrices(input)
           bag == ChosenPrice(input.override_bag_price_rmb, fo[1], option.bag_price_rmb)
           carton == ChosenPrice(input.override_carton_price_rmb, fo[2], option.carton_price_rmb)
           s == result.summary
       IN  /\ s.bag_price_source = ChosenSource(input.override_bag_price_rmb, fo[1])
           /\ s.carton_price_source = ChosenSource(input.override_carton_price_rmb, fo[2])
           /\ result.breakdown.bag_mat_rmb_per_bag = Clamped(bag)
           /\ result.breakdown.carton_rmb_per_bag
                = IF Gt(s.cartons_int, Zero)
                  THEN Div(Mul(s.cartons_int, Clamped(carton)), s.bags_int)
                  ELSE Zero

\* Factory override 0.50, option default 0.80, no caller override.
C7_Witness ==
  /\ Returned
  /\ input.override_bag_price_rmb = Undef
  /\ FactoryOverridePrices(input)[1] = Rat(1, 2)
  /\ Row(input.data.packaging_options, input.packaging_option_id).bag_price_rmb = Rat(4, 5)
  /\ result.summary.bag_price_source = "override"
  /\ result.breakdown.bag_mat_rmb_per_bag = Rat(1, 2)

\* Indices of the port-charge rows of (mode, containerType) whose port_id is in keys.
PortRows(in, mode, containerType, keys) ==
  {i \in DOMAIN in.data.port_charges_rules :
     LET r == in.data.port_charges_rules[i]
     IN  r.mode = mode /\ r.container_type = containerType /\ r.port_id \in keys}

\* Indices of the inland-freight rows of (mode, container_type) whose factory_id is in keys.
LandRows(in, mode, keys) ==
  {i \in DOMAIN in.data.land_freight_rules :
     LET r == in.data.land_freight_rules[i]
     IN  r.mode = mode /\ r.container_type = in.container_type /\ r.factory_id \in keys}

Wildcards == {"null", ""}

Least(S) == CHOOSE i \in S : \A j \in S : i <= j

\* The index a lookup is to return: the first exact row, else the first wildcard
\* row, else 0 for not-found.
Specific(exact, wild) == IF exact # {} THEN Least(exact) ELSE IF wild # {} THEN Least(wild) ELSE 0

\* The LCL port total of a rule row for a quantity in tons.
LclTotalOf(r, tons) ==
  Add(Clamped(r.base_rmb), Mul(Ceil(Max(Zero, Sub(tons, One))), Clamped(r.extra_rmb_per_ton)))

\* C8: among the rows of the requested mode and container type, the port-charge
\* and inland-freight lookups return a row whose key equals the requested port /
\* factory in preference to a wildcard row (key null or ''), wherever the rows stand
\* in the table; a wildcard row only when there is no exact row; and when there is
\* neither, the caller's fallback value is used and the call does not fail for it.
C8_LookupSpecificity ==
  /\ Returned
       => LET s == result.summary
              fcl == Specific(PortRows(input, "FCL", input.container_type, {PolPort(input)}),
                              PortRows(input, "FCL", input.container_type, Wildcards))
              lcl == Specific(PortRows(input, "LCL", "null", {PolPort(input)}),
                              PortRows(input, "LCL", "null", Wildcards))
              land == Specific(LandRows(input, s.mode, {input.factory_id}),
                               LandRows(input, s.mode, Wildcards))
          IN  /\ s.fcl_port_total_rmb = IF fcl = 0 THEN FALLBACK_FCL_PORT(input.container_type)
                                        ELSE input.data.port_charges_rules[fcl].base_rmb
              /\ s.mode = "LCL"
                   => s.lcl_port_total_rmb = IF lcl = 0 THEN Zero
                                             ELSE LclTotalOf(input.data.port_charges_rules[lcl], s.tons)
              /\ ~ValidLandOverride(input)
                   => result.breakdown.land_rmb_per_ton_used
                        = IF land = 0 THEN Zero ELSE input.data.land_freight_rules[land].default_rmb_per_ton
  /\ ~Fatal(input) => pc # "error"

\* A wildcard row stands before the exact row, and the exact row is the one used.
C8_Witness ==
  /\ Returned
  /\ Len(input.data.port_charges_rules) = 2
  /\ 1 \in PortRows(input, "FCL", input.container_type, Wildcards)
  /\ 2 \in PortRows(input, "FCL", input.container_type, {PolPort(input)})
  /\ result.summary.fcl_port_total_rmb = input.data.port_charges_rules[2].base_rmb
  /\ input.data.port_charges_rules[1].base_rmb # input.data.port_charges_rules[2].base_rmb

\* C9: land_rmb_per_ton_used is land_fee_override_rmb_per_ton whenever that is given,
\* finite and >= 0, whatever the rule table holds, and then no inland-freight warning
\* is added; otherwise it is default_rmb_per_ton of the rule resolved for (resolved
\* mode, container_type, factory_id or wildcard); otherwise 0, with a warning.  Always
\* land_total_rmb = rate * tons and land_rmb_per_bag = land_total_rmb / bags.
C9_LandFreight ==
  Returned
    => LET s == result.summary
           b == result.breakdown
           o == input.land_fee_override_rmb_per_ton
           exact == LandRows(input, s.mode, {input.factory_id})
           wild == LandRows(input, s.mode, Wildcards)
           warned == Holds(WarnNoPortRule(input.container_type, s.mode, Zero), result.warnings)
       IN  /\ IF o.k = "num" /\ o.n >= 0
                THEN b.land_rmb_per_ton_used = o /\ ~warned
              ELSE IF exact # {}
                THEN b.land_rmb_per_ton_used = input.data.land_freight_rules[Least(exact)].default_rmb_per_ton
                     /\ ~warned
              ELSE IF wild # {}
                THEN b.land_rmb_per_ton_used = input.data.land_freight_rules[Least(wild)].default_rmb_per_ton
                     /\ ~warned
              ELSE b.land_rmb_per_ton_used = Zero /\ warned
           /\ b.land_total_rmb = Mul(b.land_rmb_per_ton_used, s.tons)
           /\ b.land_rmb_per_bag = Div(b.land_total_rmb, s.bags)

\* A valid override of 80 wins over a matching rule of another rate.
C9_Witness ==
  /\ Returned
  /\ input.land_fee_override_rmb_per_ton = Int2Num(80)
  /\ LandRows(input, result.summary.mode, {input.factory_id}) # {}
  /\ result.breakdown.land_rmb_per_ton_used = Int2Num(80)
  /\ result.breakdown.land_total_rmb = Mul(Int2Num(80), result.summary.tons)
  /\ Gt(result.breakdown.land_rmb_per_bag, Zero)

\* The hardcoded FCL port total of a container type.
HardcodedFclPort(containerType) == IF containerType = "20GP" THEN Int2Num(3500) ELSE Int2Num(4200)

Twenty == Rat(20, 1)

\* The request carries a hint value that is a finite number > 0.
PositiveValue(in) == in.qty_input_value.k = "num" /\ in.qty_input_value.n > 0

\* C11: when no container_load_rules row has the request's product_id and
\* container_type, whatever other rows the table holds (there is no wildcard row),
\* max_tons is 20 and one warning tells of it; that 20 is the FCL tonnage, and it is
\* what a hint is compared with for the auto-downgrade.
C11_LoadFallback ==
  (Returned /\ MatchingLoadRules(input) = {})
    => /\ Count(WarnNoLoadRule(input.container_type), result.warnings) = 1
       /\ input.mode = "FCL"
            => IF PositiveValue(input) /\ Below(HintTons(input, loc.unitWeightKg), Twenty)
               THEN /\ result.summary.mode = "LCL"
                    /\ Holds(WarnDowngrade(Twenty), result.warnings)
               ELSE /\ result.summary.mode = "FCL"
                    /\ result.summary.tons = Twenty
                    /\ result.summary.bags = BagsFor(Twenty, loc.unitWeightKg)

\* A table that holds only a row with an empty product_id: 20 tons are loaded.
C11_Witness ==
  /\ Returned
  /\ input.data.container_load_rules = <<LoadRule("", "20GP", Int2Num(8))>>
  /\ input.container_type = "20GP" /\ input.qty_input_value = Undef
  /\ result.summary.mode = "FCL" /\ result.summary.tons = Twenty
  /\ Holds(WarnNoLoadRule("20GP"), result.warnings)

\* The index of the port-charge row resolved for (mode, containerType), 0 when none.
ResolvedPortRow(in, mode, containerType) ==
  Specific(PortRows(in, mode, containerType, {PolPort(in)}), PortRows(in, mode, containerType, Wildcards))

\* ceil(max(0, tons - 1)): the started tons beyond the first.
ExtraTons(tons) == Ceil(Max(Zero, Sub(tons, One)))

\* C12 as stated: in an LCL result with a matching LCL port rule the port total is
\* base_rmb + ceil(max(0, tons - 1)) * extra_rmb_per_ton of the rule as stored, and
\* port_rmb_per_bag is that total / bags; in an FCL result with a matching FCL port
\* rule, port_rmb_per_bag = base_rmb / bags.
C12_LclPortCharge_AsStated ==
  Returned
    => LET s == result.summary
           rules == input.data.port_charges_rules
           lcl == ResolvedPortRow(input, "LCL", "null")
           fcl == ResolvedPortRow(input, "FCL", input.container_type)
       IN  /\ (s.mode = "LCL" /\ lcl # 0)
                => /\ s.lcl_port_total_rmb
                        = Add(rules[lcl].base_rmb, Mul(ExtraTons(s.tons), rules[lcl].extra_rmb_per_ton))
                   /\ result.breakdown.port_rmb_per_bag = Div(s.lcl_port_total_rmb, s.bags)
           /\ (s.mode = "FCL" /\ fcl # 0)
                => result.breakdown.port_rmb_per_bag = Div(rules[fcl].base_rmb, s.bags)

\* C12: in an LCL result with a matching LCL port rule the port total is
\* b + ceil(max(0, tons - 1)) * e, where b and e are the rule's base_rmb and
\* extra_rmb_per_ton, each replaced by 0 when it is negative or not finite (so b for
\* tons <= 1, b + e for 1 < tons <= 2), and port_rmb_per_bag is that total / bags; in
\* an FCL result with a matching FCL port rule, port_rmb_per_bag is the rule's
\* base_rmb as stored / bags, whatever the tons.
C12_LclPortCharge ==
  Returned
    => LET s == result.summary
           rules == input.data.port_charges_rules
           lcl == ResolvedPortRow(input, "LCL", "null")
           fcl == ResolvedPortRow(input, "FCL", input.container_type)
       IN  /\ (s.mode = "LCL" /\ lcl # 0)
                => /\ s.lcl_port_total_rmb
                        = Add(Clamped(rules[lcl].base_rmb),
                              Mul(ExtraTons(s.tons), Clamped(rules[lcl].extra_rmb_per_ton)))
                   /\ Le(s.tons, One) => s.lcl_port_total_rmb = Clamped(rules[lcl].base_rmb)
                   /\ result.breakdown.port_rmb_per_bag = Div(s.lcl_port_total_rmb, s.bags)
           /\ (s.mode = "FCL" /\ fcl # 0)
                => result.breakdown.port_rmb_per_bag = Div(rules[fcl].base_rmb, s.bags)

\* 2.5 tons under a rule of 300 + 50 per extra ton: 300 + 2 * 50 = 400.
C12_Witness ==
  /\ Returned /\ result.summary.mode = "LCL"
  /\ result.summary.tons = Rat(5, 2)
  /\ ResolvedPortRow(input, "LCL", "null") # 0
  /\ input.data.port_charges_rules[ResolvedPortRow(input, "LCL", "null")]
       = PortRule("LCL", "null", "pt1", Int2Num(300), Int2Num(50))
  /\ result.summary.lcl_port_total_rmb = Int2Num(400)
  /\ result.breakdown.port_rmb_per_bag = Div(Int2Num(400), result.summary.bags)

\* The resolved unit weight: the caller override when it is a finite number >= 0,
\* else the packaging option's.
ResolvedUnitWeight(in) ==
  LET o == in.override_unit_weight_kg
  IN  IF o.k = "num" /\ o.n >= 0 THEN o
      ELSE Row(in.data.packaging_options, in.packaging_option_id).unit_weight_kg

\* C13: in a result of mode LCL, requested or downgraded, a bags hint h gives
\* bags = ceil(h) and tons = ceil(h) * unit_weight_kg / 1000, and a tons hint h gives
\* tons = h and bags = ceil(h * 1000 / unit_weight_kg), for the resolved unit weight.
C13_LclQuantity ==
  (Returned /\ result.summary.mode = "LCL")
    => LET s == result.summary
           h == input.qty_input_value
           w == ResolvedUnitWeight(input)
       IN  /\ input.qty_input_type = "bags"
                => /\ s.bags = Ceil(h)
                   /\ s.tons = Div(Mul(Ceil(h), w), Int2Num(1000))
           /\ input.qty_input_type = "tons"
                => /\ s.tons = h
                   /\ s.bags = Ceil(Div(Mul(h, Int2Num(1000)), w))

\* 4.5 bags of an overridden 400 kg: 5 bags, 2 tons.
C13_Witness ==
  /\ Returned /\ result.summary.mode = "LCL"
  /\ input.qty_input_type = "bags" /\ input.qty_input_value = Rat(9, 2)
  /\ input.override_unit_weight_kg = Int2Num(400)
  /\ result.summary.bags = Int2Num(5)
  /\ result.summary.tons = Int2Num(2)

\* C14: in every returned result bag_mat_rmb_per_bag, carton_rmb_per_bag,
\* land_rmb_per_bag and port_rmb_per_bag are all >= 0, whatever values the matched
\* rule rows carry.
C14_NonNegative ==
  Returned
    => /\ Ge(result.breakdown.bag_mat_rmb_per_bag, Zero)
       /\ Ge(result.breakdown.carton_rmb_per_bag, Zero)
       /\ Ge(result.breakdown.land_rmb_per_bag, Zero)
       /\ Ge(result.breakdown.port_rmb_per_bag, Zero)

\* an/ad < bn/bd for positive denominators, by integer parts and then the
\* reciprocals of the fractional parts, so that no product of the terms is formed.
RECURSIVE FracLess(_, _, _, _)
FracLess(an, ad, bn, bd) ==
  LET qa == an \div ad
      qb == bn \div bd
      ra == an - qa * ad
      rb == bn - qb * bd
  IN  IF qa # qb THEN qa < qb
      ELSE IF rb = 0 THEN FALSE
      ELSE IF ra = 0 THEN TRUE
      ELSE FracLess(bd, rb, ad, ra)

\* a < b and a > b for two finite numbers.
Less(a, b) == a.k = "num" /\ b.k = "num" /\ FracLess(a.n, a.d, b.n, b.d)

Greater(a, b) == Less(b, a)

\* sell_usd_per_bag of the request that differs from the present one only in margin_pct.
SellAtMargin(m) == Summary([input EXCEPT !.margin_pct = m], loc).sell_usd_per_bag

\* C15 as stated: of two accepted requests that differ only in margin_pct, the one
\* with the greater margin has the strictly greater sell_usd_per_bag, for every net
\* cost a result can hold, zero and negative included.
C15_MarginMonotone_AsStated ==
  Returned
    => \A m \in Margins :
         Lt(input.margin_pct, m) => Greater(SellAtMargin(m), result.summary.sell_usd_per_bag)

\* C15: of two accepted requests that differ only in margin_pct (so that
\* net_rmb_per_bag and fx_rate are the same), the one with the greater margin has the
\* strictly greater sell_usd_per_bag when the net cost is > 0, the same
\* sell_usd_per_bag (0) when the net cost is 0, and the strictly smaller one when the
\* net cost is negative.
C15_MarginMonotone ==
  Returned
    => \A m \in Margins :
         Lt(input.margin_pct, m)
           => LET sell == result.summary.sell_usd_per_bag
                  net == result.summary.net_rmb_per_bag
              IN  /\ Summary([input EXCEPT !.margin_pct = m], loc).net_rmb_per_bag = net
                  /\ Gt(net, Zero) => Greater(SellAtMargin(m), sell)
                  /\ net = Zero => SellAtMargin(m) = Zero /\ sell = Zero
                  /\ Lt(net, Zero) => Less(SellAtMargin(m), sell)

\* A positive net cost priced at 20% margin sells below the same cost at 50%.
C15_Witness ==
  /\ Returned
  /\ input.margin_pct = Rat(1, 5)
  /\ Gt(result.summary.net_rmb_per_bag, Zero)
  /\ Greater(SellAtMargin(Rat(1, 2)), result.summary.sell_usd_per_bag)
  /\ Greater(result.summary.sell_usd_per_bag, result.summary.cost_usd_per_bag)

\* units_per_carton as the request gives it: the caller override if given, else the option's.
GivenUnitsPerCarton(in) ==
  IF in.override_units_per_carton # Undef THEN in.override_units_per_carton
  ELSE Row(in.data.packaging_options, in.packaging_option_id).units_per_carton

\* The carton price of the request, by the precedence of the prices, clamped at 0.
CartonPrice(in) ==
  Clamped(ChosenPrice(in.override_carton_price_rmb, FactoryOverridePrices(in)[2],
                      Row(in.data.packaging_options, in.packaging_option_id).carton_price_rmb))

\* cartons_int = ceil(bags / n) and carton_rmb_per_bag = cartons_int * price / bags.
CartonsCounted(n) ==
  /\ result.summary.cartons_int = Ceil(Div(result.summary.bags, n))
  /\ result.breakdown.carton_rmb_per_bag
       = Div(Mul(result.summary.cartons_int, CartonPrice(input)), result.summary.bags)

NoCartons == result.summary.cartons_int = Zero /\ result.breakdown.carton_rmb_per_bag = Zero

\* C16 as stated: when the given units_per_carton is a positive integer n,
\* cartons_int = ceil(bags / n) and carton_rmb_per_bag = cartons_int * carton price /
\* bags; for every other value (null, 0, negative, not an integer) there are no cartons.
C16_CartonCount_AsStated ==
  Returned
    => LET u == GivenUnitsPerCarton(input)
       IN  IF u.k = "num" /\ u.d = 1 /\ u.n > 0 THEN CartonsCounted(u) ELSE NoCartons

\* C16: when the given units_per_carton (caller override if given, else the option's)
\* is null, 0 or NaN there are no cartons: cartons_int = 0 and carton_rmb_per_bag = 0.
\* Every other number u counts as n = max(1, round(u)) units (halves rounded up, so
\* 0.4 and negative numbers count as 1, 2.5 as 3): cartons_int = ceil(bags / n) and
\* carton_rmb_per_bag = cartons_int * carton price / bags.
C16_CartonCount ==
  Returned
    => LET u == GivenUnitsPerCarton(input)
       IN  IF u.k # "num" \/ u.n = 0 THEN NoCartons
           ELSE IF Less(u, Rat(3, 2)) THEN CartonsCounted(One)
           ELSE CartonsCounted(Int2Num((2 * u.n + u.d) \div (2 * u.d)))

\* units_per_carton = 0.4 counts as one bag per carton.
C16_Witness ==
  /\ Returned
  /\ input.override_units_per_carton = Rat(2, 5)
  /\ result.summary.cartons_int = result.summary.bags
  /\ Greater(result.breakdown.carton_rmb_per_bag, Zero)

\* C17: when the resolved units_per_carton is null or 0, a caller override of null or
\* 0 over an option that defines cartons included, cartons_int = 0 and
\* carton_rmb_per_bag = 0, whichever carton price (default, factory override or
\* caller override) the request resolves.
C17_CartonAbsence ==
  (Returned /\ GivenUnitsPerCarton(input) \in {Null, Zero})
    => /\ result.summary.cartons_int = Zero
       /\ result.breakdown.carton_rmb_per_bag = Zero

\* A caller override of 0 over an option of 4 units per carton, with a carton price of 2.5.
C17_Witness ==
  /\ Returned
  /\ input.override_units_per_carton = Zero
  /\ Row(input.data.packaging_options, input.packaging_option_id).units_per_carton = Int2Num(4)
  /\ input.override_carton_price_rmb = Rat(5, 2)
  /\ result.summary.carton_price_source = "custom"
  /\ result.summary.cartons_int = Zero
  /\ result.breakdown.carton_rmb_per_bag = Zero

\* The LCL quantity of the request that asks, in bags, for the bags of the present
\* result: the conversion of those bags back to tons.
BackToTons ==
  ResolveTonsBags([input EXCEPT !.qty_input_type = "bags", !.qty_input_value = result.summary.bags],
                  "LCL", loc.maxTons, ResolvedUnitWeight(input),
                  BagsPerTon(ResolvedUnitWeight(input)))

\* What a difference may be and still count as rounding.
Tolerance == Rat(1, 1000000)

\* An LCL result for a hint in tons.
LclOfTons == Returned /\ result.summary.mode = "LCL" /\ input.qty_input_type = "tons"

\* C18 as stated: converting a tons value t to bags, bags = ceil(t * 1000 /
\* unit_weight_kg), and the bags back to tons, bags * unit_weight_kg / 1000, returns t
\* up to rounding tolerance.
C18_RoundTrip_AsStated ==
  LclOfTons
    => /\ Le(Sub(BackToTons.tons, result.summary.tons), Tolerance)
       /\ Le(Sub(result.summary.tons, BackToTons.tons), Tolerance)

\* C18: converting a tons value t to bags and the bags back to tons returns the least
\* whole number of bags' weight that is >= t: t <= t' < t + unit_weight_kg / 1000,
\* with t' = t exactly when t is a whole number of bags; the bags of t' are the bags
\* of t.
C18_RoundTrip ==
  LclOfTons
    => LET t == result.summary.tons
           w == ResolvedUnitWeight(input)
       IN  /\ BackToTons.bags = result.summary.bags
           /\ Ge(BackToTons.tons, t)
           /\ Lt(Sub(BackToTons.tons, t), Div(w, Int2Num(1000)))
           /\ BackToTons.tons = t <=> Div(Mul(t, Int2Num(1000)), w).d = 1

\* 4.5 tons of 400 kg bags: 12 bags, which weigh 4.8 tons.
C18_Witness ==
  /\ LclOfTons
  /\ result.summary.tons = Rat(9, 2)
  /\ ResolvedUnitWeight(input) = Int2Num(400)
  /\ result.summary.bags = Int2Num(12)
  /\ BackToTons.tons = Rat(24, 5)

Advisories(ws) == {i \in DOMAIN ws : ws[i].text = "LCL port charge above FCL, choose FCL"}

\* C20: a result of mode LCL holds the advisory that suggests FCL exactly when its LCL
\* port total is strictly greater than the FCL port total of the same container type,
\* and then once, naming the two totals; with or without it the mode is LCL and
\* port_rmb_per_bag is the LCL total / bags; a result of mode FCL never holds it.
C20_LclDearerAdvisory ==
  Returned
    => LET s == result.summary
           ws == result.warnings
       IN  /\ s.mode = "FCL" => Advisories(ws) = {}
           /\ s.mode = "LCL"
                => /\ Advisories(ws) # {} <=> Greater(s.lcl_port_total_rmb, s.fcl_port_total_rmb)
                   /\ Cardinality(Advisories(ws)) <= 1
                   /\ \A i \in Advisories(ws) :
                        ws[i] = WarnLclDearer(s.lcl_port_total_rmb, s.fcl_port_total_rmb)
                   /\ result.breakdown.port_rmb_per_bag = Div(s.lcl_port_total_rmb, s.bags)
           /\ s.mode = "LCL" <=> (input.mode = "LCL" \/ Holds(WarnDowngrade(loc.maxTons), ws))

\* An LCL port total of 5000 + 2 * 40 against the FCL fallback of 3500.
C20_Witness ==
  /\ Returned /\ result.summary.mode = "LCL"
  /\ result.summary.lcl_port_total_rmb = Int2Num(5080)
  /\ result.summary.fcl_port_total_rmb = Int2Num(3500)
  /\ Advisories(result.warnings) # {}
  /\ result.breakdown.port_rmb_per_bag = Div(Int2Num(5080), result.summary.bags)

TheProduct(in) == Row(in.data.products, in.product_id)

CostPerTon(in) == in.data.factory_product_costs[Least(CostRowsFor(in))].cost_rmb_per_ton

\* The refund rate is in [0, 1].
RefundInUnit(in) ==
  LET r == TheProduct(in).refund_rate IN r.k = "num" /\ r.n >= 0 /\ r.n <= r.d

C23_CostIdentity ==
  Returned
    => LET b == result.breakdown
           s == result.summary
       IN  /\ b.domestic_total_rmb_per_bag
                = Add(b.raw_rmb_per_bag,
                      Add(b.bag_mat_rmb_per_bag,
                          Add(b.carton_rmb_per_bag, Add(b.land_rmb_per_bag, b.port_rmb_per_bag))))
           /\ b.net_rmb_per_bag = Sub(b.domestic_total_rmb_per_bag, b.rebate_rmb_per_bag)
           /\ s.net_rmb_per_bag = b.net_rmb_per_bag
           /\ s.gp_rmb_per_bag = Sub(Mul(s.sell_usd_per_bag, input.fx_rate), s.net_rmb_per_bag)
           /\ s.gp_rmb_total = Mul(s.gp_rmb_per_bag, s.bags)

\* A result in which each of the five cost lines is above 0.
C23_Witness ==
  /\ Returned
  /\ Greater(result.breakdown.raw_rmb_per_bag, Zero)
  /\ Greater(result.breakdown.bag_mat_rmb_per_bag, Zero)
  /\ Greater(result.breakdown.carton_rmb_per_bag, Zero)
  /\ Greater(result.breakdown.land_rmb_per_bag, Zero)
  /\ Greater(result.breakdown.port_rmb_per_bag, Zero)
  /\ Greater(result.breakdown.rebate_rmb_per_bag, Zero)
  /\ Greater(result.summary.gp_rmb_total, Zero)

Finished(p) == p \in {"done", "error"}

Run(in) ==
  LET c0 == [input |-> in, pc |-> "start", warnings |-> <<>>, error |-> "none",
             loc |-> [product |-> "none"], result |-> NoResult, n |-> 0]
      c1 == Step(c0)
      c2 == IF Finished(c1.pc) THEN c1 ELSE Step(c1)
      c3 == IF Finished(c2.pc) THEN c2 ELSE Step(c2)
  IN  IF Finished(c3.pc) THEN c3 ELSE Step(c3)

\* The sequence ws without its i-th element.
Remove(ws, i) == [j \in 1..(Len(ws) - 1) |-> IF j < i THEN ws[j] ELSE ws[j + 1]]

\* An FCL request with a hint type and a positive hint below max_tons.
FclBelowCapacity(in) ==
  /\ ~BadReference(in)
  /\ in.mode = "FCL" /\ PositiveHint(in)
  /\ Below(HintTons(in, ResolvedUnitWeight(in)), ValidRuleOrTwenty(in))

\* C25: an FCL request with a hint type and a positive hint below max_tons returns
\* the summary and the breakdown of the same request made with mode LCL, and its
\* warnings are those of the LCL request with one downgrade notice added; if the LCL
\* request fails, the FCL request fails with the same error.  So the inland-freight
\* and port rules are looked up under LCL, not FCL.
C25_DowngradeEquivalence ==
  (Finished(pc) /\ FclBelowCapacity(input))
    => LET twin == Run([input EXCEPT !.mode = "LCL"])
           notice == WarnDowngrade(ValidRuleOrTwenty(input))
       IN  /\ twin.pc = pc /\ twin.error = error
           /\ Returned
                => /\ twin.result.summary = result.summary
                   /\ twin.result.breakdown = result.breakdown
                   /\ Count(notice, result.warnings) = 1
                   /\ ~Holds(notice, twin.result.warnings)
                   /\ \E i \in DOMAIN result.warnings :
                        /\ result.warnings[i] = notice
                        /\ Remove(result.warnings, i) = twin.result.warnings

\* A downgraded request over a table whose LCL inland rate (200) differs from its FCL
\* rate (120): the LCL rate is the one used.
C25_Witness ==
  /\ Returned /\ FclBelowCapacity(input)
  /\ input.data.land_freight_rules = <<LandRule("FCL", "20GP", "f1", Int2Num(120)),
                                       LandRule("LCL", "20GP", "f1", Int2Num(200))>>
  /\ input.land_fee_override_rmb_per_ton = Undef
  /\ result.summary.mode = "LCL"
  /\ result.breakdown.land_rmb_per_ton_used = Int2Num(200)
  /\ Run([input EXCEPT !.mode = "LCL"]).result.breakdown = result.breakdown

\* A returned result that was auto-downgraded from FCL to LCL.
Downgraded == Returned /\ input.mode = "FCL" /\ result.summary.mode = "LCL"

\* The weight of one bag in tons.
OneBagTons == Rat(ResolvedUnitWeight(input).n, ResolvedUnitWeight(input).d * 1000)

\* C26 as stated: every downgraded result has tons strictly below the resolved
\* max_tons, for tons hints and for bags hints.
C26_DowngradedBelowCapacity_AsStated ==
  Downgraded => Less(result.summary.tons, ValidRuleOrTwenty(input))

\* C26: a downgraded result has tons strictly below max_tons for a tons hint and
\* for a whole bags hint; for a non-integer bags hint, rounded up after the decision,
\* tons is strictly below max_tons plus the weight of one bag.
C26_DowngradedBelowCapacity ==
  Downgraded
    => LET maxTons == ValidRuleOrTwenty(input)
           h == input.qty_input_value
       IN  /\ PositiveHint(input)
           /\ Below(HintTons(input, ResolvedUnitWeight(input)), maxTons)
           /\ (input.qty_input_type = "tons" \/ h.d = 1) => Less(result.summary.tons, maxTons)
           /\ Less(result.summary.tons, Add(maxTons, OneBagTons))

\* 6.5 bags of 750 kg are 4.875 tons, below the 5 tons of the container; the 7 bags
\* quoted weigh 5.25 tons.
C26_Witness ==
  /\ Downgraded
  /\ input.qty_input_type = "bags" /\ input.qty_input_value = Rat(13, 2)
  /\ input.override_unit_weight_kg = Int2Num(750)
  /\ ValidRuleOrTwenty(input) = Int2Num(5)
  /\ result.summary.bags = Int2Num(7)
  /\ result.summary.tons = Rat(21, 4)

\* C27: in every returned result, of FCL mode or of LCL mode with either hint type,
\* summary.bags is a positive integer equal to summary.bags_int, and it is the
\* smallest whole number of bags whose weight reaches the quoted tonnage:
\* tons * 1000 <= bags * unit_weight_kg < tons * 1000 + unit_weight_kg.
C27_BagsCoverTonnage ==
  Returned
    => LET s == result.summary
           uw == ResolvedUnitWeight(input)
           kg == Mul(s.tons, Int2Num(1000))
           carried == Mul(s.bags, uw)
       IN  /\ s.bags.k = "num" /\ s.bags.d = 1 /\ s.bags.n > 0
           /\ s.bags_int = s.bags
           /\ ~Less(carried, kg)
           /\ Less(carried, Add(kg, uw))

\* A full container of 5 tons in bags of 750 kg: 7 bags, since 6 carry only 4.5 tons.
C27_Witness ==
  /\ Returned /\ result.summary.mode = "FCL"
  /\ input.override_unit_weight_kg = Int2Num(750)
  /\ result.summary.tons = Int2Num(5)
  /\ result.summary.bags = Int2Num(7)
  /\ result.summary.bags_int = Int2Num(7)

\* C28: a request of mode FCL never fails with the error 'LCL mode requires
\* qty_input_type and qty_input_value'; with a positive qty_input_value below
\* max_tons and no qty_input_type, the call returns an LCL result of that tonnage.
C28_FclNeverLclError ==
  input.mode = "FCL"
    => /\ error # "LCL mode requires qty_input_type and qty_input_value"
       /\ ( /\ pc \in {"quantified", "costed", "done"}
            /\ input.qty_input_type = "undefined"
            /\ input.qty_input_value.k = "num" /\ input.qty_input_value.n > 0
            /\ Below(input.qty_input_value, ValidRuleOrTwenty(input)) )
            => loc.mode = "LCL" /\ loc.tons = input.qty_input_value

\* C29: in a result of mode LCL the FCL port total is still resolved for the
\* request's container type: fcl_port_total_rmb is the matching FCL rule's base_rmb
\* or the hardcoded fallback, and a missing FCL rule adds the FCL fallback warning;
\* port_rmb_per_bag is the LCL total / bags, and the LCL total comes only from the LCL
\* rows whose container_type is null: a row of the request's container type is
\* never selected.
C29_FclTotalInLcl ==
  (Returned /\ result.summary.mode = "LCL")
    => LET s == result.summary
           ct == input.container_type
           rules == input.data.port_charges_rules
           fcl == ResolvedPortRow(input, "FCL", ct)
           lcl == ResolvedPortRow(input, "LCL", "null")
           fclWarned == Count(WarnNoPortRule(ct, "FCL", HardcodedFclPort(ct)), result.warnings)
       IN  /\ IF fcl # 0
                THEN s.fcl_port_total_rmb = rules[fcl].base_rmb /\ fclWarned = 0
                ELSE s.fcl_port_total_rmb = HardcodedFclPort(ct) /\ fclWarned = 1
           /\ s.lcl_port_total_rmb = IF lcl # 0 THEN LclTotalOf(rules[lcl], s.tons) ELSE Zero
           /\ result.breakdown.port_rmb_per_bag = Div(s.lcl_port_total_rmb, s.bags)

\* An LCL quote over a table whose only row is an LCL rule of the request's container
\* type and port: the row is not selected, the LCL total is 0, and the FCL total is
\* the hardcoded 3500 with its warning.
C29_Witness ==
  /\ Returned /\ result.summary.mode = "LCL"
  /\ input.container_type = "20GP"
  /\ input.data.port_charges_rules = <<PortRule("LCL", "20GP", "pt1", Int2Num(700), Int2Num(70))>>
  /\ result.summary.lcl_port_total_rmb = Zero
  /\ result.breakdown.port_rmb_per_bag = Zero
  /\ result.summary.fcl_port_total_rmb = Int2Num(3500)
  /\ Holds(WarnNoPortRule("20GP", "FCL", Int2Num(3500)), result.warnings)
  /\ Holds(WarnNoLclPortRule, result.warnings)

\* A finite number > 0.
Positive(x) == x.k = "num" /\ x.n > 0

\* The unit weight of the selected packaging option.
OptionUnitWeight(in) == Row(in.data.packaging_options, in.packaging_option_id).unit_weight_kg

\* The call has passed the checks of the rates and of the references.
ReachedUnitWeight ==
  /\ pc # "start" /\ ~BadReference(input)
  /\ error \notin {"fx_rate must be greater than 0", "margin_pct must be in [0, 1)"}

\* C30 as stated: the unit weight used is the override when it is given, finite and
\* > 0, otherwise the option's unit_weight_kg; the call fails for the unit weight only
\* when the option's weight is not a finite number > 0 and no such override replaces
\* it, so an override of zero, negative or not finite never makes a request fail.
C30_UnitWeight_AsStated ==
  ReachedUnitWeight
    => LET o == input.override_unit_weight_kg
           used == IF Positive(o) THEN o ELSE OptionUnitWeight(input)
       IN  /\ error = "unit_weight_kg must be greater than 0" <=> ~Positive(used)
           /\ pc # "error" => loc.unitWeightKg = used

\* C30: the unit weight used is the override when it is given, finite and >= 0,
\* otherwise the option's unit_weight_kg; the call fails for the unit weight exactly
\* when that value is not a finite number > 0.  A negative or non-finite override is
\* ignored in favour of the option's weight; an override of 0 is taken and makes the
\* call fail, whatever the option's weight.
C30_UnitWeight ==
  ReachedUnitWeight
    => LET o == input.override_unit_weight_kg
           used == IF o.k = "num" /\ o.n >= 0 THEN o ELSE OptionUnitWeight(input)
       IN  /\ error = "unit_weight_kg must be greater than 0" <=> ~Positive(used)
           /\ pc # "error" => loc.unitWeightKg = used
           /\ o = Zero => error = "unit_weight_kg must be greater than 0"
           /\ (o.k \in {"nan", "inf"} \/ (o.k = "num" /\ o.n < 0)) /\ pc # "error"
                => loc.unitWeightKg = OptionUnitWeight(input)

\* An override of 0 over an option of 500 kg: the call fails.
C30_Witness ==
  /\ pc = "error" /\ error = "unit_weight_kg must be greater than 0"
  /\ ~BadReference(input)
  /\ input.override_unit_weight_kg = Zero
  /\ OptionUnitWeight(input) = Int2Num(500)

====
